---- MODULE Spec2Model ----
(***************************************************************************)
(* A model of nurones-mcp (mcp-core): the in-memory event bus, the tool    *)
(* executor, the path security resolver and the context engine, each       *)
(* translated from its Rust source.                                        *)
(***************************************************************************)
EXTENDS Integers, Sequences, FiniteSets, TLC

(***************************************************************************)
(* Bounds of the explored runs.                                            *)
(***************************************************************************)
\* BATCH_SIZE is 64 in event_bus.rs:9; the model fills a smaller batch so
\* that the flush path is reached within the explored runs.
BATCH_SIZE == 2
\* events submitted by the callers of one run of the concurrent bus
MaxEvents == 3
\* events submitted by the single caller of one run of the serial bus
MaxSerialEvents == 4
\* longest input of publish_batch
MaxBatchLen == 2

\* most components of an input path of the path security resolver
MaxSegs == 3

\* operations applied to the context engine in one run
MaxEngineOps == 5
\* operations of one run over the whole range of frames and observed values
MaxTuneOps == 3
\* tool manifests registered with the executor
MaxTools == 1
\* tool requests served by the executor
MaxRequests == 1
\* most patterns in the tool list of a role
MaxPatterns == 2
\* subscriptions made on one bus, and events published to a bus with subscribers
MaxSubscriptions == 2
MaxSubEvents == 2
\* engine calls made by the threads that share one engine
MaxConcCalls == 4
MaxQueueEvents == 2
MaxConnects == 10
MaxDisconnects == 10

Callers == {1, 2}
Streams == {"s1", "s2"}
Corrs == {"k1", "k2"}

None == [some |-> FALSE]
Some(x) == [some |-> TRUE, val |-> x]

(***************************************************************************)
(* types.rs: the context frame.  Scores are in hundredths (0.6 is 60).     *)
(***************************************************************************)
\* ContextFrame::default, types.rs: the frame the tests and callers start
\* from; ts, stage and budgets are never read by the operations modelled.
DefaultContext ==
    [reason_trace_id |-> "bootstrap-000", tenant_id |-> "default",
     risk_level |-> 0,
     novelty_score |-> None, context_confidence |-> Some(70), flags |-> None]

\* an f64/f32 NaN held by a present score
NaN == [some |-> TRUE, nan |-> TRUE]
IsNaN(score) == "nan" \in DOMAIN score

\* (0.0..=1.0).contains(&score): false for NaN, whose comparisons are all false
ScoreInRange(score) ==
    (~score.some) \/ (~IsNaN(score) /\ 0 <= score.val /\ score.val <= 100)

\* ContextFrame::validate: Some(message) for the first failed check, None
\* when the frame is accepted.
validate(ctx) ==
    IF ctx.reason_trace_id = "" THEN Some("reason_trace_id is required")
    ELSE IF ctx.tenant_id = "" THEN Some("tenant_id is required")
    ELSE IF ~ScoreInRange(ctx.novelty_score)
         THEN Some("novelty_score must be between 0.0 and 1.0")
    ELSE IF ~ScoreInRange(ctx.context_confidence)
         THEN Some("context_confidence must be between 0.0 and 1.0")
    ELSE None

\* A frame that validate rejects.
UntracedContext == [DefaultContext EXCEPT !.reason_trace_id = ""]

VARIABLES
    events,             \* InMemoryEventBus.events: Vec<StoredEvent>
    seen_correlations,  \* InMemoryEventBus.seen_correlations: correlation id -> event id
    pending_batch,      \* InMemoryEventBus.pending_batch: Vec<Event>
    events_lock,        \* holder of the write guard of `events` (0: free)
    uuid_next,          \* the next fresh Uuid::new_v4()
    clock,              \* chrono::Utc::now()
    task,               \* per caller: the position inside publish / publish_batch
    calls,              \* the calls made so far, each with its result once returned
    submitted,          \* number of events handed to the bus so far
    handlers,           \* InMemoryEventBus.handlers: event type -> Vec<EventHandler>
    delivered,          \* the handler invocations so far, each with its outcome
    sec,                \* path security resolver: the call's inputs and its outcome
    engine,             \* ContextEngine: enabled, change_cap_pct, min_confidence
    metrics,            \* ContextEngine.metrics: key -> MetricData
    engine_last,        \* the last engine call: inputs, return value, table before
    engine_ops,         \* number of engine calls so far (also the engine's clock)
    engine_log,         \* the engine calls so far: operation, key, entry created
    engine_task,        \* per thread: the position inside its engine call
    metrics_lock,       \* the RwLock around ContextEngine.metrics: writer, readers
    tools,              \* InMemoryToolExecutor.tools: tool id -> ToolManifest
    wasi_runner,        \* InMemoryToolExecutor.wasi_runner: the wasmtime binary
    fs_allowlist,       \* InMemoryToolExecutor.fs_allowlist
    policies,           \* AppState.policies: roles and users
    exec,               \* the tool request in flight or last served, with its effects
    exec_calls,         \* number of tool requests so far
    rbac,               \* is_tool_allowed: the call's inputs and its outcome
    frame_check,        \* a frame handed to validation, and the outcome
    queue_tx,           \* InMemoryEventBus.queue_tx: Option<Sender<Event>>
    watermark,          \* the last check_watermark: used_pct and the returned bool
    policy_file,        \* the contents of .mcp/policies.json
    update_task,        \* per request: the position inside update_policies
    connections,        \* VirtualConnector.connections: AtomicU64, as four 16-bit limbs
    conn_calls          \* the numbers of connect and disconnect calls so far

busVars == <<events, seen_correlations, pending_batch, events_lock, uuid_next,
             clock, task, calls, submitted, handlers, delivered>>

\* the state of the components other than the bus, the resolver, ...
engineVars == <<engine, metrics, engine_last, engine_ops, engine_log>>
lockVars == <<engine_task, metrics_lock>>
execVars == <<tools, wasi_runner, fs_allowlist, policies, exec, exec_calls>>
queueVars == <<queue_tx, watermark>>
updateVars == <<policy_file, update_task>>
connVars == <<connections, conn_calls>>
notBusQueue == <<sec, engineVars, lockVars, execVars, rbac, frame_check, updateVars, connVars>>
notBus == <<notBusQueue, queueVars>>
notSec == <<busVars, engineVars, lockVars, execVars, rbac, frame_check,
            queueVars, updateVars, connVars>>
notEngine == <<busVars, sec, execVars, rbac, frame_check, queueVars, updateVars, connVars>>
notExec == <<busVars, sec, engineVars, lockVars, rbac, frame_check,
             queueVars, updateVars, connVars>>
notPol == <<busVars, sec, engineVars, lockVars, execVars, frame_check,
            queueVars, updateVars, connVars>>
notFrames == <<busVars, sec, engineVars, lockVars, execVars, rbac,
               queueVars, updateVars, connVars>>
notUpdate == <<busVars, sec, engineVars, lockVars, rbac, frame_check, queueVars, connVars>>
notConn == <<busVars, sec, engineVars, lockVars, execVars, rbac, frame_check,
             queueVars, updateVars>>

vars == <<busVars, sec, engineVars, lockVars, execVars, rbac, frame_check,
          queueVars, updateVars, connVars>>

(***************************************************************************)
(* Event bus (src/mcp-core/src/event_bus.rs)                               *)
(***************************************************************************)
\* An Event as far as the bus reads it: stream_id, event_type,
\* metadata.correlation_id and the context frame.
EventsOfType(types) ==
    [stream_id : Streams, event_type : types, correlation_id : Corrs,
     context : {DefaultContext, UntracedContext}]

EventInputs == EventsOfType({"tool.executed"})

RECURSIVE SeqsUpTo(_, _)
SeqsUpTo(S, n) ==
    IF n = 0 THEN {<<>>}
    ELSE LET shorter == SeqsUpTo(S, n - 1)
         IN  shorter \cup {Append(s, x) : s \in {t \in shorter : Len(t) = n - 1}, x \in S}

IdleTask == [pc |-> "idle", mode |-> "none", todo |-> <<>>, resps |-> <<>>,
             call |-> 0, id |-> 0, ts |-> 0]

\* a lookup that never finds the correlation id
check_duplicate_miss(k) == None

\* check_duplicate: the dedup index read under its read lock
check_duplicate(k) ==
    IF k \in DOMAIN seen_correlations THEN Some(seen_correlations[k]) ELSE None

\* queue_depth
queue_depth == Len(pending_batch)

\* a version counted over the whole log instead of the stream
NextVersionAllStreams(evs, s) == Len(evs) + 1

\* version = 1 + number of stored events of the stream (computed under the
\* write guard of `events`)
NextVersion(evs, s) ==
    Cardinality({i \in DOMAIN evs : evs[i].stream_id = s}) + 1

ResponseOf(stored) ==
    [event_id |-> stored.id, stream_id |-> stored.stream_id,
     version |-> stored.version, timestamp |-> stored.timestamp]

Ok(v) == [kind |-> "Ok", value |-> v]
Err(m) == [kind |-> "Err", error |-> m]
Panic == [kind |-> "Panic"]
Pending == [kind |-> "Pending"]

\* the batch's responses handed back in the reverse of the input order
FinalResultReversed(mode, resps) ==
    IF mode = "batch"
    THEN Ok([i \in DOMAIN resps |-> resps[Len(resps) + 1 - i]])
    ELSE Ok(resps[Len(resps)])

\* What the caller gets once every event of its list went through
\* publish_internal: publish returns the single response, a flushing publish
\* the last response of the flush, publish_batch the whole list.
FinalResult(mode, resps) ==
    IF mode = "batch" THEN Ok(resps) ELSE Ok(resps[Len(resps)])

Return(c, result) ==
    /\ calls' = [calls EXCEPT ![task[c].call].result = result]
    /\ task' = [task EXCEPT ![c] = IdleTask]

\* After the response r of the current event: go on with the next event of
\* the list or return.
Advance(c, r) ==
    LET t == task[c]
        resps == Append(t.resps, r)
        rest == Tail(t.todo)
    IN  IF rest = <<>>
        THEN Return(c, FinalResult(t.mode, resps))
        ELSE /\ task' = [task EXCEPT ![c] = [t EXCEPT !.pc = "internal", !.todo = rest,
                                                      !.resps = resps]]
             /\ UNCHANGED calls

\* f64 values are exact rationals <<numerator, denominator>> in lowest terms
\* with a positive denominator.
Abs(n) == IF n < 0 THEN -n ELSE n

RECURSIVE Gcd(_, _)
Gcd(a, b) == IF b = 0 THEN a ELSE Gcd(b, a % b)

Rat(n, d) ==
    LET g == Gcd(Abs(n), Abs(d))
        sgn == IF d < 0 THEN -1 ELSE 1
    IN  <<sgn * (n \div g), sgn * (d \div g)>>

RInt(n) == <<n, 1>>
RAdd(x, y) == Rat(x[1] * y[2] + y[1] * x[2], x[2] * y[2])
RSub(x, y) == Rat(x[1] * y[2] - y[1] * x[2], x[2] * y[2])
RMul(x, y) == Rat(x[1] * y[1], x[2] * y[2])
RLess(x, y) == x[1] * y[2] < y[1] * x[2]
RLeq(x, y) == x[1] * y[2] <= y[1] * x[2]

\* The bounded queue, lines 8-10 and 66-92
QUEUE_CAPACITY == 4096
\* WATERMARK_THRESHOLD: f64 = 0.75
WATERMARK_THRESHOLD == Rat(3, 4)

\* InMemoryEventBus::new, line 60: no queue
NoQueue == None

\* with_queue, lines 66-75: channel(capacity) gives a sender with `capacity`
\* free permits; the receiver is dropped at once and no code sends through
\* queue_tx, so Sender::capacity() stays at `capacity`.
with_queue(capacity) == Some([max_capacity |-> capacity, capacity |-> capacity])

\* check_watermark, lines 78-92: the division of usize values below 2^53 by
\* 4096.0 and the subtraction from 1.0 are exact in f64
check_watermark ==
    IF queue_tx.some
    THEN LET remaining == queue_tx.val.capacity
             used_pct == RSub(RInt(1), Rat(remaining, QUEUE_CAPACITY))
         IN  [used_pct |-> Some(used_pct), ok |-> ~RLess(WATERMARK_THRESHOLD, used_pct)]
    ELSE [used_pct |-> None, ok |-> TRUE]

Capacities == {1, 100, 1023, 1024, 1025, 4096, 8192}

QueueIdle == queue_tx = NoQueue /\ watermark = None

\* publish, lines 117-138: look at the watermark, push to the pending batch
\* under its write lock whatever the watermark says, and decide whether to
\* flush.
publish(c, e, limit) ==
    /\ task[c].pc = "idle"
    /\ submitted < limit
    /\ submitted' = submitted + 1
    /\ pending_batch' = Append(pending_batch, e)
    /\ calls' = Append(calls, [caller |-> c, op |-> "publish", arg |-> <<e>>,
                               result |-> Pending])
    /\ LET should_flush == Len(pending_batch') >= BATCH_SIZE
       IN  task' = [task EXCEPT ![c] =
                [IdleTask EXCEPT !.pc = IF should_flush THEN "flush" ELSE "internal",
                                 !.mode = IF should_flush THEN "flush" ELSE "single",
                                 !.todo = IF should_flush THEN <<>> ELSE <<e>>,
                                 !.call = Len(calls')]]
    /\ watermark' = Some(check_watermark)
    /\ UNCHANGED <<events, seen_correlations, events_lock, uuid_next, clock>>
    /\ UNCHANGED <<handlers, delivered, queue_tx>>
    /\ UNCHANGED notBusQueue

\* flush_batch, lines 95-102: drain the pending batch under its write lock. An
\* empty batch gives Ok(vec![]) and publish's last().unwrap() (line 133)
\* panics.
flush_batch(c) ==
    /\ task[c].pc = "flush"
    /\ IF pending_batch = <<>>
       THEN /\ Return(c, Panic)
            /\ UNCHANGED pending_batch
       ELSE /\ task' = [task EXCEPT ![c].pc = "internal", ![c].todo = pending_batch]
            /\ pending_batch' = <<>>
            /\ UNCHANGED calls
    /\ UNCHANGED <<events, seen_correlations, events_lock, uuid_next, clock, submitted>>
    /\ UNCHANGED <<handlers, delivered>>
    /\ UNCHANGED notBus

\* publish_batch, lines 140-147
publish_batch(c, es, limit) ==
    /\ task[c].pc = "idle"
    /\ es # <<>>
    /\ submitted + Len(es) <= limit
    /\ submitted' = submitted + Len(es)
    /\ calls' = Append(calls, [caller |-> c, op |-> "publish_batch", arg |-> es,
                               result |-> Pending])
    /\ task' = [task EXCEPT ![c] = [IdleTask EXCEPT !.pc = "internal", !.mode = "batch",
                                                    !.todo = es, !.call = Len(calls')]]
    /\ UNCHANGED <<events, seen_correlations, pending_batch, events_lock, uuid_next, clock>>
    /\ UNCHANGED <<handlers, delivered>>
    /\ UNCHANGED notBus

\* publish_internal, lines 170-175: validate the context, then draw the event
\* id and the timestamp.
ValidateAndDraw(c, e) ==
    IF validate(e.context) # None
    THEN /\ Return(c, Err("InvalidContext"))
         /\ UNCHANGED <<uuid_next, clock>>
    ELSE /\ task' = [task EXCEPT ![c].pc = "store", ![c].id = uuid_next, ![c].ts = clock]
         /\ uuid_next' = uuid_next + 1
         /\ clock' = clock + 1
         /\ UNCHANGED calls

\* publish_internal, the dedup check (lines 218-221, 155): check_duplicate
\* under the read lock of the index. A seen correlation id goes on to read the
\* stored event; otherwise the event is validated.
publish_internal_check(c) ==
    /\ task[c].pc = "internal"
    /\ LET e == Head(task[c].todo)
           dup == check_duplicate(e.correlation_id)
       IN  IF dup.some
           THEN /\ task' = [task EXCEPT ![c].pc = "dup_read", ![c].id = dup.val]
                /\ UNCHANGED <<calls, uuid_next, clock>>
           ELSE ValidateAndDraw(c, e)
    /\ UNCHANGED <<events, seen_correlations, pending_batch, events_lock, submitted>>
    /\ UNCHANGED <<handlers, delivered>>
    /\ UNCHANGED notBus

\* publish_internal, the duplicate's response (lines 159-167): find the stored
\* event under the read lock of `events`; when it is not found the code falls
\* through to validation.
publish_internal_dup(c) ==
    /\ task[c].pc = "dup_read"
    /\ events_lock = 0
    /\ LET found == {i \in DOMAIN events : events[i].id = task[c].id}
       IN  IF found # {}
           THEN /\ Advance(c, ResponseOf(events[CHOOSE i \in found : TRUE]))
                /\ UNCHANGED <<uuid_next, clock>>
           ELSE ValidateAndDraw(c, Head(task[c].todo))
    /\ UNCHANGED <<events, seen_correlations, pending_batch, events_lock, submitted>>
    /\ UNCHANGED <<handlers, delivered>>
    /\ UNCHANGED notBus

\* publish_internal, lines 177-194: take the write guard of `events`, compute
\* the version and append.
publish_internal_store(c) ==
    /\ task[c].pc = "store"
    /\ events_lock = 0
    /\ LET e == Head(task[c].todo)
       IN  events' = Append(events,
                [id |-> task[c].id, stream_id |-> e.stream_id,
                 version |-> NextVersion(events, e.stream_id),
                 correlation_id |-> e.correlation_id, timestamp |-> task[c].ts])
    /\ events_lock' = c
    /\ task' = [task EXCEPT ![c].pc = "index"]
    /\ UNCHANGED <<seen_correlations, pending_batch, uuid_next, clock, calls, submitted>>
    /\ UNCHANGED <<handlers, delivered>>
    /\ UNCHANGED notBus

\* the number of subscriptions made so far
RECURSIVE CountHandlers(_)
CountHandlers(types) ==
    IF types = {} THEN 0
    ELSE LET t == CHOOSE x \in types : TRUE
         IN  Len(handlers[t]) + CountHandlers(types \ {t})

Subscriptions == CountHandlers(DOMAIN handlers)

\* the handlers subscribed to an event type, in subscription order
HandlersOf(event_type) ==
    IF event_type \in DOMAIN handlers THEN handlers[event_type] ELSE <<>>

\* lines 200-208: each handler of the list is called with the event; n is
\* the number of handlers called, call the publish or publish_batch under way
Invocations(handler_list, e, event_id, call, n) ==
    [i \in 1..n |-> [handler |-> handler_list[i].name, event_id |-> event_id,
                     event_type |-> e.event_type, call |-> call, position |-> i,
                     subscribed |-> Len(handler_list),
                     result |-> handler_list[i].result]]

\* the first handler of the list that returns an error (0: none does)
FirstFailure(handler_list) ==
    IF \E i \in DOMAIN handler_list : handler_list[i].result = "Err"
    THEN CHOOSE i \in DOMAIN handler_list :
            /\ handler_list[i].result = "Err"
            /\ \A j \in 1..(i - 1) : handler_list[j].result # "Err"
    ELSE 0

\* a fan-out that propagates the first handler error to the publisher
publish_internal_index_propagating(c) ==
    /\ task[c].pc = "index"
    /\ events_lock = c
    /\ LET e == Head(task[c].todo)
           stored == events[CHOOSE i \in DOMAIN events : events[i].id = task[c].id]
           handler_list == HandlersOf(e.event_type)
           failure == FirstFailure(handler_list)
       IN  /\ seen_correlations' =
                [k \in DOMAIN seen_correlations \cup {e.correlation_id} |->
                    IF k = e.correlation_id THEN task[c].id ELSE seen_correlations[k]]
           /\ IF failure = 0
              THEN /\ delivered' = delivered \o
                        Invocations(handler_list, e, task[c].id, task[c].call, Len(handler_list))
                   /\ Advance(c, ResponseOf(stored))
              ELSE /\ delivered' = delivered \o
                        Invocations(handler_list, e, task[c].id, task[c].call, failure)
                   /\ Return(c, Err("Event handler failed"))
    /\ events_lock' = 0
    /\ UNCHANGED <<events, pending_batch, uuid_next, clock, submitted, handlers>>
    /\ UNCHANGED notBus

\* every handler on the bus, whatever type it subscribed to
RECURSIVE AllHandlers(_)
AllHandlers(types) ==
    IF types = {} THEN <<>>
    ELSE LET t == CHOOSE x \in types : TRUE
         IN  handlers[t] \o AllHandlers(types \ {t})

\* a fan-out that calls the handlers of every event type
publish_internal_index_every_type(c) ==
    /\ task[c].pc = "index"
    /\ events_lock = c
    /\ LET e == Head(task[c].todo)
           stored == events[CHOOSE i \in DOMAIN events : events[i].id = task[c].id]
           handler_list == AllHandlers(DOMAIN handlers)
       IN  /\ seen_correlations' =
                [k \in DOMAIN seen_correlations \cup {e.correlation_id} |->
                    IF k = e.correlation_id THEN task[c].id ELSE seen_correlations[k]]
           /\ delivered' = delivered \o
                 Invocations(handler_list, e, task[c].id, task[c].call, Len(handler_list))
           /\ Advance(c, ResponseOf(stored))
    /\ events_lock' = 0
    /\ UNCHANGED <<events, pending_batch, uuid_next, clock, submitted, handlers>>
    /\ UNCHANGED notBus

\* publish_internal, lines 196-208 and the return: record the correlation id
\* (still holding the write guard of `events`), call every handler
\* subscribed to the event's type, an error of a handler being logged and
\* nothing else, then release the guards and hand back the response.
publish_internal_index(c) ==
    /\ task[c].pc = "index"
    /\ events_lock = c
    /\ LET e == Head(task[c].todo)
           stored == events[CHOOSE i \in DOMAIN events : events[i].id = task[c].id]
           handler_list == HandlersOf(e.event_type)
       IN  /\ seen_correlations' =
                [k \in DOMAIN seen_correlations \cup {e.correlation_id} |->
                    IF k = e.correlation_id THEN task[c].id ELSE seen_correlations[k]]
           /\ delivered' = delivered \o
                 Invocations(handler_list, e, task[c].id, task[c].call, Len(handler_list))
           /\ Advance(c, ResponseOf(stored))
    /\ events_lock' = 0
    /\ UNCHANGED <<events, pending_batch, uuid_next, clock, submitted, handlers>>
    /\ UNCHANGED notBus

\* subscribe, lines 153 and 222-227: append the handler to the list of its
\* event type under the write lock of `handlers`.  A handler is a closure; it
\* is held here by its name and by what it returns when called.
subscribe(event_type, handler) ==
    /\ Subscriptions < MaxSubscriptions
    /\ handlers' = [t \in DOMAIN handlers \cup {event_type} |->
                      IF t = event_type THEN Append(HandlersOf(t), handler)
                      ELSE handlers[t]]
    /\ UNCHANGED <<events, seen_correlations, pending_batch, events_lock, uuid_next,
                   clock, task, calls, submitted, delivered>>
    /\ UNCHANGED notBus

(***************************************************************************)
(* Strings.  A string is a sequence of letters; a letter is "/", ".", "*", *)
(* "?" or an indivisible name such as "contracts", so that the string      *)
(* operations of the source (starts_with, strip_prefix, ==, contains) are  *)
(* computed on the text and not on path components.                        *)
(***************************************************************************)
StartsWith(s, p) == Len(p) <= Len(s) /\ SubSeq(s, 1, Len(p)) = p
StripPrefix(s, p) == SubSeq(s, Len(p) + 1, Len(s))
Contains(s, ch) == \E i \in DOMAIN s : s[i] = ch

\* the text between the '/' separators, empty pieces included
RECURSIVE SplitSlash(_)
SplitSlash(s) ==
    IF s = <<>> THEN << <<>> >>
    ELSE LET r == SplitSlash(Tail(s))
         IN  IF Head(s) = "/" THEN << <<>> >> \o r
             ELSE << <<Head(s)>> \o r[1] >> \o Tail(r)

DotDot == <<".", ".">>
Dot == <<".">>

\* std::path::Path::is_absolute / has_root on Unix
IsAbsolute(s) == StartsWith(s, <<"/">>)

\* std::path::Path::components on Unix, without the root: repeated
\* separators and "." components are skipped, ".." is kept. (A leading "."
\* of a relative path, which Rust keeps as CurDir, only occurs before
\* absolutize.)
Components(s) == SelectSeq(SplitSlash(s), LAMBDA c : c # <<>> /\ c # Dot)

RECURSIVE ToPath(_)
ToPath(names) ==
    IF names = <<>> THEN <<>>
    ELSE <<"/">> \o Head(names) \o ToPath(Tail(names))

\* the text of an absolute path with the given components
AbsPath(names) == IF names = <<>> THEN <<"/">> ELSE ToPath(names)

\* ".." removes the component before it; at the root it is dropped
RECURSIVE Normalize(_, _)
Normalize(names, acc) ==
    IF names = <<>> THEN acc
    ELSE IF Head(names) = DotDot
         THEN Normalize(Tail(names),
                        IF acc = <<>> THEN acc ELSE SubSeq(acc, 1, Len(acc) - 1))
         ELSE Normalize(Tail(names), Append(acc, Head(names)))

\* the working directory of the server process
Cwd == <<"/", "home">>

\* path_absolutize::Absolutize::absolutize: lexical, no filesystem access, no
\* symlink resolution; a relative path is taken from the working directory.
Absolutize(s) ==
    AbsPath(Normalize(IF IsAbsolute(s) THEN Components(s)
                      ELSE Components(Cwd) \o Components(s), <<>>))

\* a prefix test on the text instead of the components
PathStartsWithText(p, b) == StartsWith(p, b)

\* std::path::Path::starts_with: whole components, ".." not resolved
PathStartsWith(p, b) ==
    /\ IsAbsolute(p) = IsAbsolute(b)
    /\ StartsWith(Components(p), Components(b))

\* std::path::Path::join: an absolute argument replaces the path
PathJoin(b, r) ==
    IF IsAbsolute(r) THEN r
    ELSE IF b # <<>> /\ b[Len(b)] = "/" THEN b \o r
    ELSE b \o <<"/">> \o r

\* std::path::Path::file_name: None for the root and for a path ending in ".."
FileName(p) ==
    LET c == Components(p)
    IN  IF c = <<>> \/ c[Len(c)] = DotDot THEN None ELSE Some(c[Len(c)])

(***************************************************************************)
(* Path security resolver (src/mcp-core/src/security.rs)                   *)
(***************************************************************************)
\* is_allowed_with_base, lines 127-161: the loop over the allowlist from
\* entry i on.
RECURSIVE AllowedFrom(_, _, _, _)
AllowedFrom(path, abs, allow_list, i) ==
    IF i > Len(allow_list) THEN FALSE
    ELSE LET base_abs == Absolutize(allow_list[i])
             base_name == FileName(base_abs)
             with_slash == <<"/">> \o base_name.val \o <<"/">>
         IN  IF PathStartsWith(abs, base_abs) THEN TRUE
             ELSE IF base_name.some /\ StartsWith(path, with_slash)
                  THEN LET candidate == PathJoin(base_abs, StripPrefix(path, with_slash))
                       IN  IF PathStartsWith(candidate, base_abs) THEN TRUE
                           ELSE AllowedFrom(path, abs, allow_list, i + 1)
             ELSE IF base_name.some /\ path = <<"/">> \o base_name.val THEN TRUE
             ELSE AllowedFrom(path, abs, allow_list, i + 1)

\* is_allowed_with_base, lines 106-169; TRUE stands for Ok(()), FALSE for the
\* bail!
is_allowed_with_base(path, allow_list, base_dir) ==
    LET abs == IF IsAbsolute(path) THEN Absolutize(path)
               ELSE IF base_dir.some THEN Absolutize(PathJoin(base_dir.val, path))
               ELSE Absolutize(path)
    IN  AllowedFrom(path, abs, allow_list, 1)

\* is_allowed, lines 101-103
is_allowed(path, allow_list) == is_allowed_with_base(path, allow_list, None)

\* resolve_path, lines 73-92: the loop over the allowlist from entry i on
RECURSIVE ResolveFrom(_, _, _)
ResolveFrom(path, allow_list, i) ==
    IF i > Len(allow_list) THEN path
    ELSE LET base_abs == Absolutize(allow_list[i])
             base_name == FileName(base_abs)
             with_slash == <<"/">> \o base_name.val \o <<"/">>
         IN  IF base_name.some /\ StartsWith(path, with_slash)
             THEN PathJoin(base_abs, StripPrefix(path, with_slash))
             ELSE IF base_name.some /\ path = <<"/">> \o base_name.val THEN base_abs
             ELSE ResolveFrom(path, allow_list, i + 1)

\* resolve_path, lines 63-97: every exit is Ok(path)
resolve_path(path, allow_list) ==
    IF /\ IsAbsolute(path)
       /\ ~StartsWith(path, <<"/", "contracts">>)
       /\ ~StartsWith(path, <<"/", "workspace">>)
    THEN path
    ELSE ResolveFrom(path, allow_list, 1)

\* Inputs of the resolver: paths of up to MaxSegs pieces, absolute and
\* relative, and a few allowlists.
Pieces == { <<"contracts">>, <<"contracts", "x">>, <<"workspace">>, <<"home">>,
            <<"a">>, <<"link">>, <<"*">>, DotDot, Dot, <<>> }

RECURSIVE RelText(_)
RelText(ps) ==
    IF ps = <<>> THEN <<>>
    ELSE IF Len(ps) = 1 THEN ps[1]
    ELSE ps[1] \o <<"/">> \o RelText(Tail(ps))

PathInputs ==
    LET lists == SeqsUpTo(Pieces, MaxSegs)
    IN  {<<"/">> \o RelText(ps) : ps \in lists} \cup {RelText(ps) : ps \in lists \ {<<>>}}

DefaultAllowlist == << <<"/", "workspace">>, <<"/", "tmp">> >>
\* an allowlist of the deployment: the contracts directory of the project
ProjectAllowlist == << <<"/", "home", "/", "contracts">> >>
\* an allowlist whose base has a final component other than "contracts" and
\* "workspace"
PlainAllowlist == << <<"/", "home", "/", "a">> >>
\* two bases with the same final component, in both orders
ShadowedAllowlist == << <<"/", "home", "/", "workspace">>, <<"/", "workspace">> >>
Allowlists == { DefaultAllowlist, ProjectAllowlist, PlainAllowlist,
                << <<"/", "home", "/", "workspace">>, <<"/", "home", "/", "contracts">> >>,
                ShadowedAllowlist, << ShadowedAllowlist[2], ShadowedAllowlist[1] >>,
                <<>> }

SecIdle == [op |-> "none"]

SecInit == sec \in [op : {"input"}, path : PathInputs, allow_list : Allowlists]

SecIsAllowed ==
    /\ sec.op = "input"
    /\ sec' = [op |-> "is_allowed", path |-> sec.path, allow_list |-> sec.allow_list,
               result |-> is_allowed(sec.path, sec.allow_list)]
    /\ UNCHANGED notSec

\* resolve_path returns Result<PathBuf>; every exit of the function is Ok
SecResolvePath ==
    /\ sec.op = "input"
    /\ sec' = [op |-> "resolve_path", path |-> sec.path, allow_list |-> sec.allow_list,
               result |-> Ok(resolve_path(sec.path, sec.allow_list))]
    /\ UNCHANGED notSec

(***************************************************************************)
(* Context engine (src/mcp-core/src/context.rs, types.rs)                  *)
(*                                                                         *)
(* f64 values are exact rationals <<numerator, denominator>> in lowest     *)
(* terms with a positive denominator; confidences are in hundredths.       *)
(***************************************************************************)
\* a frame gate that counts an absent confidence as full confidence
frame_can_autotune_absent_ok(ctx) ==
    /\ ctx.risk_level = 0
    /\ (IF ctx.context_confidence.some THEN ctx.context_confidence.val ELSE 100) >= 60
    /\ (IF ctx.flags.some THEN ctx.flags.val.allow_autotune ELSE TRUE)

\* ContextFrame::can_autotune, types.rs lines 130-134; 0.6 is 60 hundredths
\* and an absent confidence counts as 0.0
frame_can_autotune(ctx) ==
    /\ ctx.risk_level = 0
    /\ (IF ctx.context_confidence.some THEN ctx.context_confidence.val ELSE 0) >= 60
    /\ (IF ctx.flags.some THEN ctx.flags.val.allow_autotune ELSE TRUE)

\* a gate that looks at the engine's switch, the risk level and the engine's
\* threshold but not at the frame's flags
can_autotune_ignoring_flags(ctx) ==
    /\ engine.enabled
    /\ ctx.risk_level = 0
    /\ (IF ctx.context_confidence.some THEN ctx.context_confidence.val ELSE 0)
          >= engine.min_confidence

\* ContextEngine::can_autotune, context.rs lines 32-37
can_autotune(ctx) ==
    IF ~engine.enabled THEN FALSE
    ELSE /\ frame_can_autotune(ctx)
         /\ (IF ctx.context_confidence.some THEN ctx.context_confidence.val ELSE 0)
               >= engine.min_confidence

\* adjust_metric, lines 53-64: the clamp around the baseline
Clamp(baseline, proposed) ==
    LET max_change == RMul(baseline, Rat(engine.change_cap_pct, 100))
    IN  IF RLess(RAdd(baseline, max_change), proposed) THEN RAdd(baseline, max_change)
        ELSE IF RLess(proposed, RSub(baseline, max_change))
             THEN RSub(baseline, max_change)
        ELSE proposed

\* adjust_metric, lines 40-70
adjust_metric(key, current, ctx) ==
    /\ engine_ops < MaxEngineOps
    /\ engine_ops' = engine_ops + 1
    /\ IF ~can_autotune(ctx)
       THEN /\ metrics' = metrics
            /\ engine_last' = [op |-> "adjust_metric", key |-> key, observed |-> current,
                               ctx |-> ctx, ret |-> Some(current), before |-> metrics]
       ELSE LET entry == IF key \in DOMAIN metrics THEN metrics[key]
                         ELSE [current_value |-> current, baseline |-> current,
                               last_update |-> engine_ops', consecutive_successes |-> 0]
                adjusted == Clamp(entry.baseline, current)
            IN  /\ metrics' = [k \in DOMAIN metrics \cup {key} |->
                                 IF k = key
                                 THEN [entry EXCEPT !.current_value = adjusted,
                                                    !.last_update = engine_ops']
                                 ELSE metrics[k]]
                /\ engine_last' = [op |-> "adjust_metric", key |-> key,
                                   observed |-> current, ctx |-> ctx,
                                   ret |-> Some(adjusted), before |-> metrics]
    /\ engine_log' = Append(engine_log,
                            [op |-> "adjust_metric", key |-> key,
                             created |-> can_autotune(ctx) /\ key \notin DOMAIN metrics])
    /\ UNCHANGED engine
    /\ UNCHANGED notEngine

\* a record_success that promotes on the third success
record_success_on_third(key) ==
    /\ engine_ops < MaxEngineOps
    /\ engine_ops' = engine_ops + 1
    /\ IF key \in DOMAIN metrics
       THEN LET n == metrics[key].consecutive_successes + 1
            IN  metrics' = [metrics EXCEPT ![key] =
                    IF n >= 3
                    THEN [metrics[key] EXCEPT !.baseline = metrics[key].current_value,
                                              !.consecutive_successes = 0]
                    ELSE [metrics[key] EXCEPT !.consecutive_successes = n]]
       ELSE metrics' = metrics
    /\ engine_last' = [op |-> "record_success", key |-> key, ret |-> None,
                       before |-> metrics]
    /\ engine_log' = Append(engine_log,
                            [op |-> "record_success", key |-> key, created |-> FALSE])
    /\ UNCHANGED engine
    /\ UNCHANGED notEngine

\* record_success, lines 73-84
record_success(key) ==
    /\ engine_ops < MaxEngineOps
    /\ engine_ops' = engine_ops + 1
    /\ IF key \in DOMAIN metrics
       THEN LET n == metrics[key].consecutive_successes + 1
            IN  metrics' = [metrics EXCEPT ![key] =
                    IF n >= 2
                    THEN [metrics[key] EXCEPT !.baseline = metrics[key].current_value,
                                              !.consecutive_successes = 0]
                    ELSE [metrics[key] EXCEPT !.consecutive_successes = n]]
       ELSE metrics' = metrics
    /\ engine_last' = [op |-> "record_success", key |-> key, ret |-> None,
                       before |-> metrics]
    /\ engine_log' = Append(engine_log,
                            [op |-> "record_success", key |-> key, created |-> FALSE])
    /\ UNCHANGED engine
    /\ UNCHANGED notEngine

\* a rollback that leaves the success counter as it is
rollback_keeping_counter(key) ==
    /\ engine_ops < MaxEngineOps
    /\ engine_ops' = engine_ops + 1
    /\ IF key \in DOMAIN metrics
       THEN /\ metrics' = [metrics EXCEPT ![key].current_value = metrics[key].baseline]
            /\ engine_last' = [op |-> "rollback", key |-> key,
                               ret |-> Some(metrics[key].baseline), before |-> metrics]
       ELSE /\ metrics' = metrics
            /\ engine_last' = [op |-> "rollback", key |-> key, ret |-> None,
                               before |-> metrics]
    /\ engine_log' = Append(engine_log,
                            [op |-> "rollback", key |-> key, created |-> FALSE])
    /\ UNCHANGED engine
    /\ UNCHANGED notEngine

\* rollback, lines 87-96
rollback(key) ==
    /\ engine_ops < MaxEngineOps
    /\ engine_ops' = engine_ops + 1
    /\ IF key \in DOMAIN metrics
       THEN /\ metrics' = [metrics EXCEPT ![key] =
                    [metrics[key] EXCEPT !.current_value = metrics[key].baseline,
                                         !.consecutive_successes = 0]]
            /\ engine_last' = [op |-> "rollback", key |-> key,
                               ret |-> Some(metrics[key].baseline), before |-> metrics]
       ELSE /\ metrics' = metrics
            /\ engine_last' = [op |-> "rollback", key |-> key, ret |-> None,
                               before |-> metrics]
    /\ engine_log' = Append(engine_log,
                            [op |-> "rollback", key |-> key, created |-> FALSE])
    /\ UNCHANGED engine
    /\ UNCHANGED notEngine

\* snapshot, lines 99-105
snapshot == [k \in DOMAIN metrics |-> <<metrics[k].current_value, metrics[k].baseline>>]

MetricKeys == {"m1", "m2"}
Observed == {RInt(-100), RInt(0), RInt(120)}
CapPcts == {0, 10}
MinConfidences == {60, 80}
Confidences == {None, Some(50), Some(70)}
FlagsInputs == {None} \cup {Some([allow_autotune |-> a, read_only |-> FALSE]) : a \in BOOLEAN}
EngineContexts == [risk_level : {0, 1, 2}, context_confidence : Confidences,
                   flags : FlagsInputs]

\* no engine call under way and the lock of the table free
Threads == {1, 2}
ThreadIdle == [pc |-> "idle", calls |-> 0]
FreeLock == [writer |-> 0, readers |-> {}]
LockIdle == engine_task = [t \in Threads |-> ThreadIdle] /\ metrics_lock = FreeLock

EngineIdle ==
    /\ engine = [enabled |-> FALSE, change_cap_pct |-> 0, min_confidence |-> 0]
    /\ metrics = <<>>
    /\ engine_last = [op |-> "none"]
    /\ engine_ops = 0
    /\ engine_log = <<>>
    /\ LockIdle

\* the values of test_rollback, and the frames of one permitted and one
\* refused adjustment
TestObserved == {RInt(100), RInt(105)}
TestContexts ==
    {[risk_level |-> r, context_confidence |-> Some(70), flags |-> None] : r \in {0, 1}}

\* ContextEngine::new(true, 10, 0.6) of the tests, lines 117 and 141
TestEngineInit ==
    /\ engine = [enabled |-> TRUE, change_cap_pct |-> 10, min_confidence |-> 60]
    /\ metrics = <<>>
    /\ engine_last = [op |-> "none"]
    /\ engine_ops = 0
    /\ engine_log = <<>>
    /\ LockIdle

\* ContextEngine::new, lines 22-29
EngineInit ==
    /\ engine \in [enabled : BOOLEAN, change_cap_pct : CapPcts,
                   min_confidence : MinConfidences]
    /\ metrics = <<>>
    /\ engine_last = [op |-> "none"]
    /\ engine_ops = 0
    /\ engine_log = <<>>
    /\ LockIdle

\* --- the engine called from several threads: each operation takes the lock
\* --- of `metrics` once, for its whole body

\* a call that goes for the lock: a permitted adjust_metric, record_success
\* and rollback for the write lock (lines 45, 74, 88), snapshot for the read
\* lock (line 100)
engine_call(t, op, key, current, ctx) ==
    /\ engine_task[t].pc \in {"idle", "returned"}
    /\ engine_task[1].calls + engine_task[2].calls < MaxConcCalls
    /\ op = "adjust_metric" => can_autotune(ctx)
    /\ engine_task' = [engine_task EXCEPT ![t] =
          [pc |-> "lock", op |-> op, key |-> key, current |-> current, ctx |-> ctx,
           calls |-> engine_task[t].calls + 1]]
    /\ UNCHANGED <<engineVars, metrics_lock>>
    /\ UNCHANGED notEngine

\* adjust_metric, lines 41-43: a refused adjustment returns without the lock
adjust_metric_refused(t, key, current, ctx) ==
    /\ engine_task[t].pc \in {"idle", "returned"}
    /\ engine_task[1].calls + engine_task[2].calls < MaxConcCalls
    /\ ~can_autotune(ctx)
    /\ adjust_metric(key, current, ctx)
    /\ engine_task' = [engine_task EXCEPT ![t] =
          [pc |-> "returned", op |-> "adjust_metric", key |-> key, ret |-> Some(current),
           calls |-> engine_task[t].calls + 1]]
    /\ UNCHANGED metrics_lock

\* a write lock handed out while read guards are still held
lock_write_over_readers(t) ==
    /\ engine_task[t].pc = "lock"
    /\ engine_task[t].op # "snapshot"
    /\ metrics_lock.writer = 0
    /\ metrics_lock' = [metrics_lock EXCEPT !.writer = t]
    /\ engine_task' = [engine_task EXCEPT ![t] =
          [pc |-> "locked", op |-> @.op, key |-> @.key, current |-> @.current,
           ctx |-> @.ctx, seen |-> metrics, calls |-> @.calls]]
    /\ UNCHANGED engineVars
    /\ UNCHANGED notEngine

\* self.metrics.write(): granted when no guard of either kind is held; the
\* holder sees the table as it is then
lock_write(t) ==
    /\ engine_task[t].pc = "lock"
    /\ engine_task[t].op # "snapshot"
    /\ metrics_lock = FreeLock
    /\ metrics_lock' = [metrics_lock EXCEPT !.writer = t]
    /\ engine_task' = [engine_task EXCEPT ![t] =
          [pc |-> "locked", op |-> @.op, key |-> @.key, current |-> @.current,
           ctx |-> @.ctx, seen |-> metrics, calls |-> @.calls]]
    /\ UNCHANGED engineVars
    /\ UNCHANGED notEngine

\* the body of adjust_metric, record_success or rollback under the write
\* guard, the guard dropped on return
unlock_write(t) ==
    /\ engine_task[t].pc = "locked"
    /\ metrics_lock.writer = t
    /\ LET call == engine_task[t]
       IN  CASE call.op = "adjust_metric" -> adjust_metric(call.key, call.current, call.ctx)
             [] call.op = "record_success" -> record_success(call.key)
             [] call.op = "rollback" -> rollback(call.key)
    /\ engine_task' = [engine_task EXCEPT ![t] =
          [pc |-> "returned", op |-> engine_task[t].op, key |-> engine_task[t].key,
           ret |-> engine_last'.ret, before |-> metrics,
           calls |-> engine_task[t].calls]]
    /\ metrics_lock' = [metrics_lock EXCEPT !.writer = 0]

\* self.metrics.read(), line 100: granted when no write guard is held; the
\* iteration of line 101-104 has every field of every entry still to read
lock_read(t) ==
    /\ engine_task[t].pc = "lock"
    /\ engine_task[t].op = "snapshot"
    /\ metrics_lock.writer = 0
    /\ metrics_lock' = [metrics_lock EXCEPT !.readers = @ \cup {t}]
    /\ engine_task' = [engine_task EXCEPT ![t] =
          [pc |-> "reading", op |-> "snapshot",
           todo |-> (DOMAIN metrics) \X {"current_value", "baseline"},
           got |-> <<>>, calls |-> engine_task[t].calls]]
    /\ UNCHANGED engineVars
    /\ UNCHANGED notEngine

\* snapshot, lines 101-104: one field of one entry is copied
snapshot_read(t) ==
    /\ engine_task[t].pc = "reading"
    /\ \E item \in engine_task[t].todo :
          engine_task' = [engine_task EXCEPT
             ![t].todo = @ \ {item},
             ![t].got = [i \in (DOMAIN @) \cup {item} |->
                           IF i = item THEN metrics[item[1]][item[2]] ELSE @[i]]]
    /\ UNCHANGED <<engineVars, metrics_lock>>
    /\ UNCHANGED notEngine

\* snapshot returns the collected map and the read guard is dropped
snapshot_return(t) ==
    /\ engine_task[t].pc = "reading"
    /\ engine_task[t].todo = {}
    /\ LET got == engine_task[t].got
           keys == {item[1] : item \in DOMAIN got}
       IN  engine_task' = [engine_task EXCEPT ![t] =
              [pc |-> "returned", op |-> "snapshot",
               ret |-> [k \in keys |-> <<got[<<k, "current_value">>],
                                         got[<<k, "baseline">>]>>],
               before |-> metrics, calls |-> engine_task[t].calls]]
    /\ metrics_lock' = [metrics_lock EXCEPT !.readers = @ \ {t}]
    /\ UNCHANGED engineVars
    /\ UNCHANGED notEngine

(***************************************************************************)
(* Policies (src/mcp-core/src/policies.rs).  Tool ids and role patterns    *)
(* are strings: "fs.read" is <<"fs", ".", "read">>, "fs.*" is              *)
(* <<"fs", ".", "*">>.                                                      *)
(***************************************************************************)
ToolId(family, op) == <<family, ".", op>>

EndsWith(s, p) == Len(p) <= Len(s) /\ SubSeq(s, Len(s) - Len(p) + 1, Len(s)) = p

\* str::trim_end_matches: the suffix is removed as often as it occurs
RECURSIVE TrimEndMatches(_, _)
TrimEndMatches(s, p) ==
    IF p # <<>> /\ EndsWith(s, p)
    THEN TrimEndMatches(SubSeq(s, 1, Len(s) - Len(p)), p)
    ELSE s

\* Policies::default, lines 14-31 (fs_allowlist is the executor's
\* DefaultAllowlist)
DefaultPolicies ==
    [roles |-> [r \in {"admin", "operator", "reader"} |->
                  CASE r = "admin" -> << <<"*">> >>
                    [] r = "operator" -> << ToolId("fs", "read"), ToolId("fs", "list") >>
                    [] r = "reader" -> << ToolId("fs", "read") >>],
     users |-> [u \in {"local:dev", "guest"} |->
                  IF u = "local:dev" THEN "admin" ELSE "reader"]]

\* is_tool_allowed, lines 59-102
is_tool_allowed(pol, user, tool) ==
    IF user \notin DOMAIN pol.users THEN FALSE
    ELSE LET role == pol.users[user]
         IN  IF role \notin DOMAIN pol.roles THEN FALSE
             ELSE LET allowed_tools == pol.roles[role]
                      listed(t) == \E i \in DOMAIN allowed_tools : allowed_tools[i] = t
                  IN  \/ listed(<<"*">>)
                      \/ listed(tool)
                      \/ \E i \in DOMAIN allowed_tools :
                            /\ EndsWith(allowed_tools[i], <<".", "*">>)
                            /\ StartsWith(tool,
                                   TrimEndMatches(allowed_tools[i], <<".", "*">>))

\* Inputs of is_tool_allowed: tool ids, among them "fsx.read" and "fs", whose
\* text begins with "fs" but not with "fs."; role patterns; users with a
\* role, with a role that is not defined and without an entry.
PolTools == { ToolId("fs", "read"), ToolId("fs", "write"), <<"fs", "x", ".", "read">>,
              <<"fs">>, ToolId("db", "query") }
Patterns == { <<"*">>, <<"fs", ".", "*">>, ToolId("fs", "read"), ToolId("db", "query") }
PolUsers == {"local:dev", "guest", "alice", "bob", "nobody"}

PolicyInputs ==
    {DefaultPolicies}
    \cup {[roles |-> [r \in {"tester"} |-> pats],
           users |-> [u \in {"alice", "bob"} |->
                        IF u = "alice" THEN "tester" ELSE "ghost"]]
          : pats \in SeqsUpTo(Patterns, MaxPatterns)}

PolIdle == [op |-> "none"]

PolInit == rbac \in [op : {"input"}, user : PolUsers, tool : PolTools]

PolIsToolAllowed ==
    /\ rbac.op = "input"
    /\ rbac' = [op |-> "is_tool_allowed", user |-> rbac.user, tool |-> rbac.tool,
               result |-> is_tool_allowed(policies, rbac.user, rbac.tool)]
    /\ UNCHANGED notPol

(***************************************************************************)
(* The host filesystem and wildcard expansion (security.rs, lines 7-59)    *)
(***************************************************************************)
\* The regular files of the host: /workspace/a, /workspace/b,
\* /home/contracts/a and /home/a.
FsFiles == { ToPath(<< <<"workspace">>, <<"a">> >>),
             ToPath(<< <<"workspace">>, <<"b">> >>),
             ToPath(<< <<"home">>, <<"contracts">>, <<"a">> >>),
             ToPath(<< <<"home">>, <<"a">> >>) }

\* The symbolic links of the host: /workspace/link points to /home/a.
FsLinks == { [link |-> ToPath(<< <<"workspace">>, <<"link">> >>),
              target |-> ToPath(<< <<"home">>, <<"a">> >>)] }

\* The files, the links and every directory on the way to one.
FsEntries ==
    UNION {{AbsPath(SubSeq(Components(f), 1, n)) : n \in 0..Len(Components(f))}
           : f \in FsFiles \cup {l.link : l \in FsLinks}}

FsNames == UNION {{Components(f)[i] : i \in DOMAIN Components(f)} : f \in FsEntries}

\* glob::Pattern::matches on one component: "*" stands for any text, "?" for
\* one letter.
RECURSIVE NameMatch(_, _)
NameMatch(pat, name) ==
    IF pat = <<>> THEN name = <<>>
    ELSE IF Head(pat) = "*"
         THEN NameMatch(Tail(pat), name)
              \/ (name # <<>> /\ NameMatch(pat, Tail(name)))
    ELSE IF Head(pat) = "?"
         THEN name # <<>> /\ NameMatch(Tail(pat), Tail(name))
    ELSE name # <<>> /\ Head(name) = Head(pat) /\ NameMatch(Tail(pat), Tail(name))

IsWild(s) == Contains(s, "*") \/ Contains(s, "?")

\* glob::glob: the existing entries that the pattern names, component by
\* component; a component without wildcards is taken literally.
RECURSIVE GlobFrom(_, _, _)
GlobFrom(prefix, comps, sep) ==
    LET exists(p) == Absolutize(p) \in FsEntries
        under(c) == IF sep THEN prefix \o <<"/">> \o c ELSE c
    IN  IF comps = <<>> THEN (IF exists(prefix) THEN {prefix} ELSE {})
        ELSE IF IsWild(Head(comps))
             THEN UNION {GlobFrom(under(n), Tail(comps), TRUE)
                         : n \in {m \in FsNames : /\ NameMatch(Head(comps), m)
                                                  /\ exists(under(m))}}
        ELSE GlobFrom(under(Head(comps)), Tail(comps), TRUE)

\* a directory of the host: an entry with something below it
IsDir(p) ==
    \E e \in FsEntries :
        /\ e # Absolutize(p)
        /\ StartsWith(Components(e), Components(Absolutize(p)))

\* glob::glob; a pattern that ends with the separator yields directories only
glob(pattern) ==
    LET found == GlobFrom(<<>>, Components(pattern), IsAbsolute(pattern))
    IN  IF pattern # <<>> /\ pattern[Len(pattern)] = "/"
        THEN {m \in found : IsDir(m)}
        ELSE found

\* str::rsplit_once('/'): the position of the last '/', 0 when there is none
LastSlash(s) ==
    IF Contains(s, "/") THEN CHOOSE i \in DOMAIN s :
                                 s[i] = "/" /\ \A j \in DOMAIN s : s[j] = "/" => j <= i
    ELSE 0

\* an expansion that returns every match of the pattern, allowed or not
expand_wildcard_path_unfiltered(path, allow_list) ==
    IF ~IsWild(path)
    THEN [ok |-> TRUE, files |-> {resolve_path(path, allow_list)}]
    ELSE IF LastSlash(path) = 0 THEN [ok |-> FALSE, error |-> "Invalid path"]
    ELSE LET dir_part == SubSeq(path, 1, LastSlash(path) - 1)
             file_pattern == SubSeq(path, LastSlash(path) + 1, Len(path))
             resolved_dir == resolve_path(dir_part, allow_list)
             pattern == resolved_dir \o <<"/">> \o file_pattern
             matches == glob(pattern)
         IN  IF matches = {} THEN [ok |-> FALSE, error |-> "No files matched pattern"]
             ELSE [ok |-> TRUE, files |-> matches]

\* expand_wildcard_path, lines 7-59: the matched paths, or the error
expand_wildcard_path(path, allow_list) ==
    IF ~IsWild(path)
    THEN [ok |-> TRUE, files |-> {resolve_path(path, allow_list)}]
    ELSE IF LastSlash(path) = 0 THEN [ok |-> FALSE, error |-> "Invalid path"]
    ELSE LET dir_part == SubSeq(path, 1, LastSlash(path) - 1)
             file_pattern == SubSeq(path, LastSlash(path) + 1, Len(path))
             resolved_dir == resolve_path(dir_part, allow_list)
             pattern == resolved_dir \o <<"/">> \o file_pattern
             matches == {m \in glob(pattern) : is_allowed(m, allow_list)}
         IN  IF matches = {} THEN [ok |-> FALSE, error |-> "No files matched pattern"]
             ELSE [ok |-> TRUE, files |-> matches]

SecExpandWildcard ==
    /\ sec.op = "input"
    /\ sec' = [op |-> "expand_wildcard_path", path |-> sec.path,
               allow_list |-> sec.allow_list,
               result |-> expand_wildcard_path(sec.path, sec.allow_list)]
    /\ UNCHANGED notSec

(***************************************************************************)
(* Tool executor (src/mcp-core/src/tool_executor.rs, tool_wasi.rs) and the *)
(* execute_tool handler of the HTTP API (main.rs)                          *)
(***************************************************************************)
FsRead == ToolId("fs", "read")
FsList == ToolId("fs", "list")
FsWrite == ToolId("fs", "write")
FsDelete == ToolId("fs", "delete")
HttpRequest == ToolId("http", "request")
FetchUrl == ToolId("fetch", "url")
EnvGet == ToolId("env", "get")
ProcessExecute == ToolId("process", "execute")
SessionCompress == ToolId("session", "compress")
TelemetryPush == ToolId("telemetry", "push")
DbTools == {ToolId("db", "query"), ToolId("db", "execute"), ToolId("db", "schema")}
AiTools == {ToolId("embedding", "generate"), ToolId("completion", "stream")}

\* The tool ids of the requests and of the manifests: the ids the dispatcher
\* names, and "test.tool" of its tests, which it does not name.
ToolIds ==
    {FsRead, FsList, FsWrite, FsDelete, HttpRequest, FetchUrl, EnvGet,
     ProcessExecute, SessionCompress, TelemetryPush, ToolId("test", "tool")}
    \cup DbTools \cup AiTools

\* ToolManifest.entry: "wasm://tool.wasm", "native://tool", or a plain path
Entries == { <<"wasm://", "tool", ".", "wasm">>, <<"native://", "tool">>,
             <<"extensions", "/", "tool">> }

ToolManifests == [name : ToolIds, entry : Entries]

\* ToolResult (types.rs): output is TRUE when it is Some(..), error is the
\* Option of the message.
ToolResult(success, output, error, context) ==
    [ret |-> "Ok", success |-> success, output |-> output, error |-> error,
     context_used |-> context]
Succeeded(context) == ToolResult(TRUE, TRUE, None, context)
Failed(message, context) == ToolResult(FALSE, FALSE, Some(message), context)
\* the Err(anyhow!(..)) return of execute
ErrReturn(message) == [ret |-> "Err", error |-> message]

ReadOnlyBlocked == "Write operation blocked by read_only flag"

\* The input object as far as the dispatcher reads it: the string "path", and
\* whether the strings "url", "key" and "command" are there.
NoInput == [path |-> None, url |-> FALSE, key |-> FALSE, command |-> FALSE]

ExecIdle == [pc |-> "idle"]

\* execute returns: the handler answers the request (main.rs, lines 645-662).
Completed(req, result, effects) ==
    [pc |-> "done", user |-> req.user, tool_id |-> req.tool_id,
     input |-> req.input, context |-> req.context, result |-> result,
     response |-> IF result.ret = "Ok"
                  THEN [success |-> result.success, output |-> result.output,
                        error |-> result.error]
                  ELSE [success |-> FALSE, output |-> FALSE,
                        error |-> Some(result.error)],
     handler |-> effects.handler, sandbox |-> effects.sandbox,
     spawned |-> effects.spawned, opened |-> effects.opened]

\* What a request has done to the world: the branch that served it, the
\* input given to WasiRunner::exec, whether a child process was started, and
\* the paths the host filesystem was asked to open or to describe.
NoEffects == [handler |-> "none", sandbox |-> None, spawned |-> FALSE, opened |-> {}]

\* execute is waiting for I/O, the read guard of `tools` still held.
Waiting(req, io) ==
    [pc |-> "io", user |-> req.user, tool_id |-> req.tool_id,
     input |-> req.input, context |-> req.context, io |-> io]

\* execute, lines 196-293: a tool with a wasm:// entry, up to the call of the
\* sandbox driver.
WasmDispatch(req) ==
    LET fx == [NoEffects EXCEPT !.handler = "wasm"]
        sandbox(input) == Waiting(req, [kind |-> "sandbox", input |-> input])
    IN  IF StartsWith(req.tool_id, <<"fs", ".">>) /\ req.input.path.some
        THEN LET path == req.input.path.val
             IN  IF IsWild(path)
                 THEN LET expanded == expand_wildcard_path(path, fs_allowlist)
                      IN  IF ~expanded.ok
                          THEN Completed(req, Failed("Wildcard expansion failed",
                                                     req.context), fx)
                          ELSE IF req.tool_id = FsRead
                               THEN Waiting(req, [kind |-> "read_matched",
                                                  files |-> expanded.files])
                          ELSE IF req.tool_id = FsList
                               THEN Completed(req, Succeeded(req.context),
                                              [fx EXCEPT !.opened = expanded.files])
                          ELSE sandbox(req.input)
                 ELSE IF ~is_allowed(path, fs_allowlist)
                      THEN Completed(req, ErrReturn("Security error"), fx)
                 ELSE sandbox([req.input EXCEPT
                                  !.path = Some(resolve_path(path, fs_allowlist))])
        ELSE sandbox(req.input)

\* execute, lines 325-343: a tool with a native:// entry
NativeDispatch(req) ==
    IF req.tool_id = SessionCompress
    THEN Waiting(req, [kind |-> "compress"])
    ELSE Completed(req, Failed("Native tool not implemented", req.context),
                   [NoEffects EXCEPT !.handler = "native"])

\* execute, lines 346-356: the read_only gate
ReadOnlyGate(req) ==
    /\ StartsWith(req.tool_id, <<"fs", ".">>)
    /\ req.context.flags.some /\ req.context.flags.val.read_only
    /\ req.tool_id = FsWrite

\* execute, lines 359-662: the built-in table, up to the I/O of the handler
BuiltinDispatch(req) ==
    LET fx == [NoEffects EXCEPT !.handler = "builtin"]
        missing(field) == Completed(req, ErrReturn(field), fx)
    IN  IF req.tool_id = FsRead
        THEN IF ~req.input.path.some THEN missing("fs.read requires 'path' parameter")
             ELSE IF ~is_allowed(req.input.path.val, fs_allowlist)
                  THEN Completed(req, ErrReturn("Security error"), fx)
             ELSE Waiting(req, [kind |-> "read_file", path |-> req.input.path.val])
        ELSE IF req.tool_id = FsList
        THEN LET path == IF req.input.path.some THEN req.input.path.val ELSE Dot
             IN  IF ~is_allowed(path, fs_allowlist)
                 THEN Completed(req, ErrReturn("Security error"), fx)
                 ELSE Waiting(req, [kind |-> "read_dir", path |-> path])
        ELSE IF req.tool_id = HttpRequest
        THEN IF ~req.input.url THEN missing("http.request requires 'url' parameter")
             ELSE Waiting(req, [kind |-> "http"])
        ELSE IF req.tool_id = FetchUrl
        THEN IF ~req.input.url THEN missing("fetch.url requires 'url' parameter")
             ELSE Waiting(req, [kind |-> "fetch"])
        ELSE IF req.tool_id = EnvGet
        THEN IF ~req.input.key THEN missing("env.get requires 'key' parameter")
             ELSE Waiting(req, [kind |-> "env"])
        ELSE IF req.tool_id = ProcessExecute
        THEN IF ~req.input.command
             THEN missing("process.execute requires 'command' parameter")
             ELSE Waiting(req, [kind |-> "process"])
        ELSE IF req.tool_id \in DbTools
        THEN Completed(req, Failed("Database not configured", req.context), fx)
        ELSE IF req.tool_id \in AiTools
        THEN Completed(req, Failed("AI tools require OPENAI_API_KEY", req.context), fx)
        ELSE IF req.tool_id = TelemetryPush
        THEN Completed(req, Succeeded(req.context), fx)
        ELSE Completed(req, Failed("Tool not implemented", req.context),
                       [NoEffects EXCEPT !.handler = "fallback"])

\* execute, lines 166-663, from the call to the first I/O or return
Dispatch(req) ==
    IF validate(req.context).some
    THEN Completed(req, ErrReturn(validate(req.context).val), NoEffects)
    ELSE IF req.tool_id \notin DOMAIN tools
    THEN Completed(req, ErrReturn("Tool not found"), NoEffects)
    ELSE IF StartsWith(tools[req.tool_id].entry, <<"wasm://">>) THEN WasmDispatch(req)
    ELSE IF StartsWith(tools[req.tool_id].entry, <<"native://">>) THEN NativeDispatch(req)
    ELSE IF ReadOnlyGate(req)
    THEN Completed(req, Failed(ReadOnlyBlocked, req.context),
                   [NoEffects EXCEPT !.handler = "gate"])
    ELSE BuiltinDispatch(req)

\* register_tool, lines 136-145: the write guard needs every read guard
\* released.
register_tool(manifest) ==
    /\ exec.pc # "io"
    /\ Cardinality(DOMAIN tools \cup {manifest.name}) <= MaxTools
    /\ tools' = [t \in DOMAIN tools \cup {manifest.name} |->
                    IF t = manifest.name THEN manifest ELSE tools[t]]
    /\ UNCHANGED <<wasi_runner, fs_allowlist, policies, exec, exec_calls>>
    /\ UNCHANGED notExec

\* execute_tool, main.rs lines 615-663: the request of `user` carries tool,
\* input and context; the handler calls execute with them.
execute_tool(user, tool_name, input, context) ==
    /\ exec.pc # "io"
    /\ exec_calls < MaxRequests
    /\ exec_calls' = exec_calls + 1
    /\ exec' = Dispatch([user |-> user, tool_id |-> tool_name, input |-> input,
                         context |-> context])
    /\ UNCHANGED <<tools, wasi_runner, fs_allowlist, policies>>
    /\ UNCHANGED notExec

\* the I/O of the request in flight ends and execute returns
Finish(kind, result, effects) ==
    /\ exec.pc = "io"
    /\ exec.io.kind = kind
    /\ exec' = Completed(exec, result, effects)
    /\ UNCHANGED <<tools, wasi_runner, fs_allowlist, policies, exec_calls>>
    /\ UNCHANGED notExec

\* WasiRunner::exec, tool_wasi.rs lines 33-92, and execute, lines 298-321
wasi_exec(outcome) ==
    LET spawned == wasi_runner.wasmtime_bin # "" /\ outcome \in {"exit_ok", "exit_fail"}
        fx == [handler |-> "wasm", sandbox |-> Some(exec.io.input),
               spawned |-> spawned, opened |-> {}]
    IN  /\ exec.pc = "io" /\ exec.io.kind = "sandbox"
        /\ Finish("sandbox",
                   IF wasi_runner.wasmtime_bin # "" /\ outcome = "exit_ok"
                   THEN Succeeded(exec.context)
                   ELSE Failed("WASI execution failed", exec.context),
                   fx)

\* execute, lines 213-242: fs.read over the files a wildcard matched; a file
\* that cannot be read is skipped, so the result is the same for every
\* outcome of the reads.
read_matched_files ==
    /\ exec.pc = "io" /\ exec.io.kind = "read_matched"
    /\ Finish("read_matched", Succeeded(exec.context),
              [handler |-> "wasm", sandbox |-> None, spawned |-> FALSE,
               opened |-> exec.io.files])

\* execute_session_compression, lines 61-133
execute_session_compression(outcome) ==
    /\ exec.pc = "io" /\ exec.io.kind = "compress"
    /\ Finish("compress",
              CASE outcome = "spawn_failed" -> ErrReturn("No such file or directory")
                [] outcome = "exit_ok" -> Succeeded(exec.context)
                [] outcome = "exit_fail" -> Failed("Execution failed", exec.context),
              [handler |-> "native", sandbox |-> None,
               spawned |-> outcome # "spawn_failed", opened |-> {}])

BuiltinEffects(spawned, opened) ==
    [handler |-> "builtin", sandbox |-> None, spawned |-> spawned, opened |-> opened]

\* execute, lines 370-394: tokio::fs::read_to_string(path)
fs_read(ok) ==
    /\ exec.pc = "io" /\ exec.io.kind = "read_file"
    /\ Finish("read_file",
              IF ok THEN Succeeded(exec.context)
              ELSE Failed("Failed to read file", exec.context),
              BuiltinEffects(FALSE, {exec.io.path}))

\* execute, lines 405-436: tokio::fs::read_dir(path)
fs_list(ok) ==
    /\ exec.pc = "io" /\ exec.io.kind = "read_dir"
    /\ Finish("read_dir",
              IF ok THEN Succeeded(exec.context)
              ELSE Failed("Failed to list directory", exec.context),
              BuiltinEffects(FALSE, {exec.io.path}))

\* execute, lines 467-501: the response of request.send(), None when it fails
http_request(status) ==
    /\ exec.pc = "io" /\ exec.io.kind = "http"
    /\ Finish("http",
              IF status.some
              THEN ToolResult(status.val < 400, TRUE, None, exec.context)
              ELSE Failed("HTTP request failed", exec.context),
              BuiltinEffects(FALSE, {}))

\* execute, lines 510-533
fetch_url(ok) ==
    /\ exec.pc = "io" /\ exec.io.kind = "fetch"
    /\ Finish("fetch",
              IF ok THEN Succeeded(exec.context) ELSE Failed("Fetch failed", exec.context),
              BuiltinEffects(FALSE, {}))

\* execute, lines 540-561: std::env::var(key)
env_get(found) ==
    /\ exec.pc = "io" /\ exec.io.kind = "env"
    /\ Finish("env",
              IF found THEN Succeeded(exec.context)
              ELSE Failed("Environment variable not found", exec.context),
              BuiltinEffects(FALSE, {}))

\* execute, lines 575-601: Command::new(command).output()
process_execute(outcome) ==
    /\ exec.pc = "io" /\ exec.io.kind = "process"
    /\ Finish("process",
              CASE outcome = "spawn_failed" ->
                       Failed("Process execution failed", exec.context)
                [] outcome = "exit_ok" -> ToolResult(TRUE, TRUE, None, exec.context)
                [] outcome = "exit_fail" ->
                       ToolResult(FALSE, TRUE, Some("stderr"), exec.context),
              BuiltinEffects(outcome # "spawn_failed", {}))

\* Requests: who asks, for which tool, with which input and context.
Users == {"local:dev", "guest"}

\* /workspace/a, /contracts/a, /home/a, /workspace/../a, /workspace/*,
\* /contracts/* and /home/*
ExecPaths ==
    { ToPath(<< <<"workspace">>, <<"a">> >>), ToPath(<< <<"contracts">>, <<"a">> >>),
      ToPath(<< <<"home">>, <<"a">> >>), ToPath(<< <<"workspace">>, DotDot, <<"a">> >>),
      ToPath(<< <<"workspace">>, <<"*">> >>), ToPath(<< <<"contracts">>, <<"*">> >>),
      ToPath(<< <<"home">>, <<"*">> >>) }

\* the inputs that make a difference to the dispatcher, per tool
ExecInputs(tool_id) ==
    IF StartsWith(tool_id, <<"fs", ".">>)
    THEN {NoInput} \cup {[NoInput EXCEPT !.path = Some(p)] : p \in ExecPaths}
    ELSE IF tool_id \in {HttpRequest, FetchUrl}
    THEN {NoInput, [NoInput EXCEPT !.url = TRUE]}
    ELSE IF tool_id = EnvGet THEN {NoInput, [NoInput EXCEPT !.key = TRUE]}
    ELSE IF tool_id = ProcessExecute THEN {NoInput, [NoInput EXCEPT !.command = TRUE]}
    ELSE {NoInput}

ExecContexts ==
    {DefaultContext, UntracedContext}
    \cup {[DefaultContext EXCEPT
              !.flags = Some([allow_autotune |-> TRUE, read_only |-> ro])]
          : ro \in BOOLEAN}

SandboxOutcomes == {"missing", "spawn_failed", "exit_ok", "exit_fail"}
ProcessOutcomes == {"spawn_failed", "exit_ok", "exit_fail"}
HttpOutcomes == {None, Some(200), Some(404)}

\* the executor before it is in use (InMemoryToolExecutor::new with no
\* wasmtime on the PATH)
ExecIdleState ==
    /\ tools = <<>>
    /\ wasi_runner = [wasmtime_bin |-> ""]
    /\ fs_allowlist = DefaultAllowlist
    /\ policies = DefaultPolicies
    /\ exec = ExecIdle
    /\ exec_calls = 0

\* InMemoryToolExecutor::new / with_allowlist, lines 38-59; the policies of
\* the server are Policies::default (main.rs, line 80)
ExecInit ==
    /\ tools = <<>>
    /\ wasi_runner \in {[wasmtime_bin |-> ""], [wasmtime_bin |-> "/usr/bin/wasmtime"]}
    /\ fs_allowlist \in {DefaultAllowlist, ProjectAllowlist}
    /\ policies = DefaultPolicies
    /\ exec = ExecIdle
    /\ exec_calls = 0

(***************************************************************************)
(* Frame validation (src/mcp-core/src/contracts.rs, src/mcp-core/src/types.rs) *)
(***************************************************************************)
\* a validation that leaves the risk level unchecked
contract_validate_any_risk(frame) ==
    IF frame.reason_trace_id = "" THEN Some("reason_trace_id is required")
    ELSE IF frame.tenant_id = "" THEN Some("tenant_id is required")
    ELSE IF frame.stage \notin {"dev", "staging", "prod"}
         THEN Some("stage must be dev, staging, or prod")
    ELSE IF ~ScoreInRange(frame.novelty_score)
         THEN Some("novelty_score must be between 0.0 and 1.0")
    ELSE IF ~ScoreInRange(frame.context_confidence)
         THEN Some("context_confidence must be between 0.0 and 1.0")
    ELSE None

\* contracts::ContextFrame::validate, contracts.rs lines 27-51: stage is a
\* String and risk_level a u8 there; Some(message) for the first failed
\* check, None when the frame is accepted.
contract_validate(frame) ==
    IF frame.reason_trace_id = "" THEN Some("reason_trace_id is required")
    ELSE IF frame.tenant_id = "" THEN Some("tenant_id is required")
    ELSE IF frame.stage \notin {"dev", "staging", "prod"}
         THEN Some("stage must be dev, staging, or prod")
    ELSE IF frame.risk_level > 2 THEN Some("risk_level must be 0, 1, or 2")
    ELSE IF ~ScoreInRange(frame.novelty_score)
         THEN Some("novelty_score must be between 0.0 and 1.0")
    ELSE IF ~ScoreInRange(frame.context_confidence)
         THEN Some("context_confidence must be between 0.0 and 1.0")
    ELSE None

\* types::ContextFrame read from its serialized form: Stage (lowercase names)
\* and RiskLevel (0, 1, 2) are enums there and the deserializers refuse every
\* other value, types.rs lines 31-37 and 55-71.
deserialize(frame) ==
    IF frame.stage \notin {"dev", "staging", "prod"} THEN Err("unknown variant")
    ELSE IF frame.risk_level \notin {0, 1, 2} THEN Err("invalid risk_level")
    ELSE Ok([reason_trace_id |-> frame.reason_trace_id, tenant_id |-> frame.tenant_id,
             risk_level |-> frame.risk_level, novelty_score |-> frame.novelty_score,
             context_confidence |-> frame.context_confidence, flags |-> None])

\* the frames handed to validation: empty and non-empty ids, stages inside and
\* outside the enum, u8 risk levels, scores inside, on the ends of and outside
\* [0, 1], absent, and NaN
ContractFrames ==
    [reason_trace_id : {"", "test"}, tenant_id : {"", "default"},
     stage : {"dev", "staging", "prod", "invalid"}, risk_level : {0, 1, 2, 5, 255},
     novelty_score : {None, Some(-1), Some(0), Some(100), Some(101), NaN},
     context_confidence : {None, Some(-1), Some(0), Some(70), Some(100), Some(101), NaN}]

FrameIdle == [op |-> "none"]

FrameInit == frame_check \in [op : {"none"}, frame : ContractFrames]

\* contracts::ContextFrame::validate applied to the frame
ContractValidate ==
    /\ frame_check.op = "none"
    /\ frame_check' = [op |-> "contract_validate", frame |-> frame_check.frame,
                       result |-> contract_validate(frame_check.frame)]
    /\ UNCHANGED notFrames

\* types::ContextFrame::validate applied to the frame once it is read
TypesValidate ==
    /\ frame_check.op = "none"
    /\ LET typed == deserialize(frame_check.frame)
       IN  frame_check' = [op |-> "types_validate", frame |-> frame_check.frame,
                           result |-> IF typed.kind = "Err" THEN Some(typed.error)
                                      ELSE validate(typed.value)]
    /\ UNCHANGED notFrames

(***************************************************************************)
(* Policy updates over HTTP (src/mcp-core/src/main.rs, policies.rs)        *)
(***************************************************************************)
Updaters == {1, 2}

\* what fs::write leaves behind when it fails after the file was opened
Truncated == [truncated |-> TRUE]

UpdateIdleTask == [pc |-> "idle"]

\* Policies::save, policies.rs lines 47-56, called at main.rs line 676:
\* fs::write replaces the contents of .mcp/policies.json, or fails and
\* leaves the file as it was or cut short; on failure update_policies
\* returns Err(INTERNAL_SERVER_ERROR), lines 676-679.
update_policies_save(r, new_policies, outcome) ==
    /\ update_task[r].pc = "idle"
    /\ CASE outcome = "saved" ->
              /\ policy_file' = Some(new_policies)
              /\ update_task' = [update_task EXCEPT ![r] =
                    [pc |-> "saved", new_policies |-> new_policies,
                     before |-> policies]]
         [] outcome = "failed" ->
              /\ UNCHANGED policy_file
              /\ update_task' = [update_task EXCEPT ![r] =
                    [pc |-> "done", new_policies |-> new_policies,
                     before |-> policies, result |-> Err("INTERNAL_SERVER_ERROR")]]
         [] outcome = "failed_truncated" ->
              /\ policy_file' = Some(Truncated)
              /\ update_task' = [update_task EXCEPT ![r] =
                    [pc |-> "done", new_policies |-> new_policies,
                     before |-> policies, result |-> Err("INTERNAL_SERVER_ERROR")]]
    /\ UNCHANGED execVars
    /\ UNCHANGED notUpdate

\* update_policies, main.rs lines 681-685: the write guard of the policies
\* is taken only now, and the new policies replace the old ones
update_policies_store(r) ==
    /\ update_task[r].pc = "saved"
    /\ policies' = update_task[r].new_policies
    /\ UNCHANGED policy_file
    /\ update_task' = [update_task EXCEPT ![r] =
          [@ EXCEPT !.pc = "done"] @@ [result |-> Ok([success |-> TRUE])]]
    /\ UNCHANGED <<tools, wasi_runner, fs_allowlist, exec, exec_calls>>
    /\ UNCHANGED notUpdate

SaveOutcomes == {"saved", "failed", "failed_truncated"}

UpdateIdle == policy_file = None /\ update_task = [r \in Updaters |-> UpdateIdleTask]

(***************************************************************************)
(* Virtual connector (src/mcp-core/src/connector_virtual.rs)               *)
(***************************************************************************)
\* A u64 is four limbs of 16 bits, the most significant first.
LimbBase == 2^16
U64Zero == <<0, 0, 0, 0>>
U64Of(n) == <<0, 0, 0, n>>

\* AtomicU64::fetch_add(1): wraps around on overflow
RECURSIVE wrapping_inc(_, _)
wrapping_inc(x, i) ==
    IF i = 0 THEN x
    ELSE IF x[i] = LimbBase - 1 THEN wrapping_inc([x EXCEPT ![i] = 0], i - 1)
    ELSE [x EXCEPT ![i] = @ + 1]

\* AtomicU64::fetch_sub(1): wraps around below zero
RECURSIVE wrapping_dec(_, _)
wrapping_dec(x, i) ==
    IF i = 0 THEN x
    ELSE IF x[i] = 0 THEN wrapping_dec([x EXCEPT ![i] = LimbBase - 1], i - 1)
    ELSE [x EXCEPT ![i] = @ - 1]

\* VirtualConnector::new, lines 12-14
ConnIdle == connections = U64Zero /\ conn_calls = [connect |-> 0, disconnect |-> 0]

\* connect, lines 16-19
connect ==
    /\ conn_calls.connect < MaxConnects
    /\ connections' = wrapping_inc(connections, 4)
    /\ conn_calls' = [conn_calls EXCEPT !.connect = @ + 1]
    /\ UNCHANGED notConn

\* disconnect, lines 21-24
disconnect ==
    /\ conn_calls.disconnect < MaxDisconnects
    /\ connections' = wrapping_dec(connections, 4)
    /\ conn_calls' = [conn_calls EXCEPT !.disconnect = @ + 1]
    /\ UNCHANGED notConn

\* active, lines 26-28
active == connections

RestIdle == QueueIdle /\ UpdateIdle /\ ConnIdle

BusInit ==
    /\ events = <<>>
    /\ seen_correlations = <<>>
    /\ pending_batch = <<>>
    /\ events_lock = 0
    /\ uuid_next = 1
    /\ clock = 1
    /\ task = [c \in Callers |-> IdleTask]
    /\ calls = <<>>
    /\ submitted = 0
    /\ handlers = <<>>
    /\ delivered = <<>>

BusStep(c, limit) ==
    \/ \E e \in EventInputs : publish(c, e, limit)
    \/ \E es \in SeqsUpTo(EventInputs, MaxBatchLen) : publish_batch(c, es, limit)
    \/ flush_batch(c)
    \/ publish_internal_check(c)
    \/ publish_internal_dup(c)
    \/ publish_internal_store(c)
    \/ publish_internal_index(c)

Init == BusInit /\ sec = SecIdle /\ EngineIdle /\ ExecIdleState /\ rbac = PolIdle
    /\ frame_check = FrameIdle /\ RestIdle

\* Concurrent callers of one bus.
Next == \E c \in Callers : BusStep(c, MaxEvents)

Spec == Init /\ [][Next]_vars

\* One caller: every call returns before the next one starts.
NextSerial == BusStep(1, MaxSerialEvents)

SpecSerial == Init /\ [][NextSerial]_vars

\* One caller publishing to a bus that handlers subscribe to.
EventTypes == {"tool.executed", "tool.failed"}
SubHandlers == [name : {"h1", "h2"}, result : {"Ok", "Err"}]

NextSubs ==
    \/ \E t \in EventTypes, h \in SubHandlers : subscribe(t, h)
    \/ \E e \in EventsOfType(EventTypes) : publish(1, e, MaxSubEvents)
    \/ \E es \in SeqsUpTo(EventsOfType(EventTypes), MaxBatchLen) :
          publish_batch(1, es, MaxSubEvents)
    \/ flush_batch(1)
    \/ publish_internal_check(1)
    \/ publish_internal_dup(1)
    \/ publish_internal_store(1)
    \/ publish_internal_index(1)

SpecSubs == Init /\ [][NextSubs]_vars

\* The path security resolver applied to one input.
InitSec == SecInit /\ BusInit /\ EngineIdle /\ ExecIdleState /\ rbac = PolIdle
    /\ frame_check = FrameIdle /\ RestIdle

NextSec == SecIsAllowed \/ SecResolvePath \/ SecExpandWildcard

SpecSec == InitSec /\ [][NextSec]_vars

\* The context engine under a sequence of calls.
InitEngine == EngineInit /\ BusInit /\ sec = SecIdle /\ ExecIdleState /\ rbac = PolIdle
    /\ frame_check = FrameIdle /\ RestIdle

NextEngine ==
    /\ engine_ops < MaxTuneOps
    /\ UNCHANGED lockVars
    /\ \/ \E k \in MetricKeys, v \in Observed, ctx \in EngineContexts :
             adjust_metric(k, v, ctx)
       \/ \E k \in MetricKeys : record_success(k)
       \/ \E k \in MetricKeys : rollback(k)

SpecEngine == InitEngine /\ [][NextEngine]_vars

\* The engine of the tests under longer sequences of calls.
InitEngineKeys ==
    TestEngineInit /\ BusInit /\ sec = SecIdle /\ ExecIdleState /\ rbac = PolIdle
    /\ frame_check = FrameIdle /\ RestIdle

NextEngineKeys ==
    /\ UNCHANGED lockVars
    /\ \/ \E k \in MetricKeys, v \in TestObserved, ctx \in TestContexts :
             adjust_metric(k, v, ctx)
       \/ \E k \in MetricKeys : record_success(k)
       \/ \E k \in MetricKeys : rollback(k)

SpecEngineKeys == InitEngineKeys /\ [][NextEngineKeys]_vars

\* The engine of the tests shared by two threads.
EngineOps == {"adjust_metric", "record_success", "rollback", "snapshot"}

NextEngineThreads ==
    \E t \in Threads :
        \/ \E op \in EngineOps, k \in MetricKeys, v \in TestObserved, ctx \in TestContexts :
              engine_call(t, op, k, v, ctx)
        \/ \E k \in MetricKeys, v \in TestObserved, ctx \in TestContexts :
              adjust_metric_refused(t, k, v, ctx)
        \/ lock_write(t)
        \/ unlock_write(t)
        \/ lock_read(t)
        \/ snapshot_read(t)
        \/ snapshot_return(t)

SpecEngineThreads == InitEngineKeys /\ [][NextEngineThreads]_vars

\* The tool executor behind the HTTP API, one request at a time.
InitExec == ExecInit /\ BusInit /\ sec = SecIdle /\ EngineIdle /\ rbac = PolIdle
    /\ frame_check = FrameIdle /\ RestIdle

NextExec ==
    \/ \E m \in ToolManifests : register_tool(m)
    \/ \E u \in Users, t \in ToolIds, c \in ExecContexts :
          \E i \in ExecInputs(t) : execute_tool(u, t, i, c)
    \/ \E o \in SandboxOutcomes : wasi_exec(o)
    \/ read_matched_files
    \/ \E o \in ProcessOutcomes : execute_session_compression(o)
    \/ \E ok \in BOOLEAN : fs_read(ok)
    \/ \E ok \in BOOLEAN : fs_list(ok)
    \/ \E s \in HttpOutcomes : http_request(s)
    \/ \E ok \in BOOLEAN : fetch_url(ok)
    \/ \E found \in BOOLEAN : env_get(found)
    \/ \E o \in ProcessOutcomes : process_execute(o)

SpecExec == InitExec /\ [][NextExec]_vars

\* The RBAC check applied to one user and one tool under one set of policies.
InitPol ==
    /\ PolInit
    /\ BusInit /\ sec = SecIdle /\ EngineIdle
    /\ tools = <<>>
    /\ wasi_runner = [wasmtime_bin |-> ""]
    /\ fs_allowlist = DefaultAllowlist
    /\ policies \in PolicyInputs
    /\ exec = ExecIdle
    /\ exec_calls = 0
    /\ frame_check = FrameIdle /\ RestIdle

NextPol == PolIsToolAllowed

SpecPol == InitPol /\ [][NextPol]_vars

\* Frame validation applied to one frame.
InitFrames ==
    /\ FrameInit
    /\ BusInit /\ sec = SecIdle /\ EngineIdle /\ ExecIdleState /\ rbac = PolIdle
    /\ RestIdle

NextFrames == ContractValidate \/ TypesValidate

SpecFrames == InitFrames /\ [][NextFrames]_vars

\* One caller publishing to a bus built with new() or with_queue(c).
InitQueue ==
    /\ BusInit /\ sec = SecIdle /\ EngineIdle /\ ExecIdleState /\ rbac = PolIdle
    /\ frame_check = FrameIdle /\ UpdateIdle /\ ConnIdle
    /\ queue_tx \in {NoQueue} \cup {with_queue(c) : c \in Capacities}
    /\ watermark = None

NextQueue == BusStep(1, MaxQueueEvents)

SpecQueue == InitQueue /\ [][NextQueue]_vars

\* Concurrent POST /api/policies requests, one per updater.
InitUpdate ==
    /\ BusInit /\ sec = SecIdle /\ EngineIdle /\ ExecIdleState /\ rbac = PolIdle
    /\ frame_check = FrameIdle /\ QueueIdle /\ ConnIdle /\ UpdateIdle

NextUpdate ==
    \/ \E r \in Updaters, p \in PolicyInputs, o \in SaveOutcomes :
          update_policies_save(r, p, o)
    \/ \E r \in Updaters : update_policies_store(r)

SpecUpdate == InitUpdate /\ [][NextUpdate]_vars

\* The virtual connector under connect and disconnect requests.
InitConn ==
    /\ BusInit /\ sec = SecIdle /\ EngineIdle /\ ExecIdleState /\ rbac = PolIdle
    /\ frame_check = FrameIdle /\ QueueIdle /\ UpdateIdle /\ ConnIdle

NextConn == connect \/ disconnect

SpecConn == InitConn /\ [][NextConn]_vars

(***************************************************************************)
(* Claims about the event bus                                              *)
(***************************************************************************)
StoredWith(k) == {i \in DOMAIN events : events[i].correlation_id = k}

Returned(i) == calls[i].result.kind # "Pending"

\* C1: publish(e) called twice on one bus, one call after the other with any
\* other publishes in between, returns the same EventResponse both times,
\* leaves exactly one stored event carrying e's correlation id k, and
\* check_duplicate(k) afterwards gives Some(that event_id).
C1_PublishTwiceSameResponse ==
    \A i, j \in DOMAIN calls :
        (/\ i < j
         /\ calls[i].op = "publish" /\ calls[j].op = "publish"
         /\ calls[i].arg = calls[j].arg
         /\ validate(calls[i].arg[1].context) = None
         /\ Returned(i) /\ Returned(j))
        => LET k == calls[i].arg[1].correlation_id
           IN  /\ calls[i].result.kind = "Ok"
               /\ calls[j].result = calls[i].result
               /\ Cardinality(StoredWith(k)) = 1
               /\ check_duplicate(k) = Some(calls[i].result.value.event_id)

VersionsOf(s) == SelectSeq(events, LAMBDA ev : ev.stream_id = s)

\* C2: in every reachable state, under any interleaving of publish and
\* publish_batch, the versions of the stored events of each stream are
\* exactly 1..n in append order.
C2_StreamVersionsGapFree ==
    \A s \in Streams :
        \A n \in DOMAIN VersionsOf(s) : VersionsOf(s)[n].version = n

\* C2 witness: both callers have appended, through publish and through
\* publish_batch, and a stream holds several events while the other stream
\* holds one in between.
C2_Witness ==
    /\ \E i, j \in DOMAIN calls :
          /\ calls[i].caller # calls[j].caller
          /\ calls[i].op = "publish" /\ calls[j].op = "publish_batch"
          /\ calls[i].result.kind = "Ok" /\ calls[j].result.kind = "Ok"
    /\ Len(events) >= 3
    /\ events[1].stream_id = events[3].stream_id
    /\ events[2].stream_id # events[1].stream_id

\* C3: under any interleaving of concurrent publish calls that carry the same
\* correlation id, at most one event with that correlation id is ever stored
\* and all of those calls return the same event_id.
C3_AtMostOneStoredPerCorrelation ==
    /\ \A k \in Corrs : Cardinality(StoredWith(k)) <= 1
    /\ \A i, j \in DOMAIN calls :
          (/\ calls[i].op = "publish" /\ calls[j].op = "publish"
           /\ calls[i].arg[1].correlation_id = calls[j].arg[1].correlation_id
           /\ calls[i].result.kind = "Ok" /\ calls[j].result.kind = "Ok")
          => calls[i].result.value.event_id = calls[j].result.value.event_id

\* every call so far is a publish with a context that validate accepts, and
\* each has returned
OnlyValidPublishes ==
    \A i \in DOMAIN calls :
        /\ calls[i].op = "publish"
        /\ validate(calls[i].arg[1].context) = None
        /\ Returned(i)

CorrsPublished == {calls[i].arg[1].correlation_id : i \in DOMAIN calls}

\* C12: a publish that fills the pending batch stores the current event
\* exactly once and returns the response of that event; the flush stores no
\* second copy of an event that an earlier publish already stored: after a
\* sequence of publishes with valid contexts the log holds one event per
\* distinct correlation id (n events for n publishes with distinct ids), and
\* every publish returned the response of the event stored for its id.
C12_FullBatchStoresOnce ==
    OnlyValidPublishes =>
        /\ Len(events) = Cardinality(CorrsPublished)
        /\ \A i \in DOMAIN calls :
              LET k == calls[i].arg[1].correlation_id
              IN  /\ Cardinality(StoredWith(k)) = 1
                  /\ calls[i].result =
                        Ok(ResponseOf(events[CHOOSE n \in StoredWith(k) : TRUE]))

\* C12 witness: BATCH_SIZE publishes with distinct correlation ids and valid
\* contexts have returned and the last of them drained the pending batch.
C12_Witness ==
    /\ OnlyValidPublishes
    /\ Len(calls) = BATCH_SIZE
    /\ Cardinality(CorrsPublished) = Len(calls)
    /\ pending_batch = <<>>
    /\ Len(events) = Len(calls)

(***************************************************************************)
(* Claims about the path security resolver                                 *)
(***************************************************************************)
\* p has base b as a path-component prefix, both in absolutized form
UnderBase(p, b) ==
    LET pn == Components(Absolutize(p))
        bn == Components(Absolutize(b))
    IN  Len(bn) <= Len(pn) /\ \A n \in DOMAIN bn : pn[n] = bn[n]

\* the shorthand rule applies to p for base b: p is "/N" or begins with "/N/"
\* where N is the final component of the absolutized b
ShorthandApplies(p, b) ==
    LET bn == Components(Absolutize(b))
    IN  /\ bn # <<>>
        /\ \/ p = <<"/">> \o bn[Len(bn)]
           \/ StartsWith(p, <<"/">> \o bn[Len(bn)] \o <<"/">>)

\* the base b joined with what follows "/N/" in p (b itself for "/N")
ShorthandRewrite(p, b) ==
    LET bn == Components(Absolutize(b))
        name == <<"/">> \o bn[Len(bn)]
    IN  IF p = name THEN Absolutize(b)
        ELSE PathJoin(Absolutize(b), StripPrefix(p, name \o <<"/">>))

\* C6: is_allowed(p, L) accepts if and only if the absolutized form of p
\* (after the shorthand rewrite, where it applies) has some base of L as a
\* path-component prefix, '.' and '..' components and look-alike names
\* included.
C6_IsAllowedIffUnderBase ==
    sec.op = "is_allowed" =>
        LET L == sec.allow_list
            bases == {L[n] : n \in DOMAIN L}
            direct == \E b \in bases : UnderBase(sec.path, b)
            rewritten == \E b \in bases :
                            /\ ShorthandApplies(sec.path, b)
                            /\ \E b2 \in bases : UnderBase(ShorthandRewrite(sec.path, b), b2)
        IN  sec.result <=> (direct \/ rewritten)

\* some base of the allowlist L is a path-component prefix of p
UnderSomeBase(p, L) == \E n \in DOMAIN L : UnderBase(p, L[n])

\* C13: for every path p and allowlist L for which is_allowed(p, L) accepts,
\* resolve_path(p, L) returns an absolute path that has a base of L as a
\* path-component prefix; for a path that matches no base, resolve_path rejects
\* with PathNotAllowed and does not return the input.
C13_ResolveUnderBaseOrRejects ==
    sec.op = "resolve_path" =>
        IF is_allowed(sec.path, sec.allow_list)
        THEN /\ sec.result.kind = "Ok"
             /\ IsAbsolute(sec.result.value)
             /\ UnderSomeBase(sec.result.value, sec.allow_list)
        ELSE sec.result.kind = "Err"

\* C14: for every allowlist base B whose final path component is N (any name
\* N) and every suffix s, resolve_path("/N/" + s, L) returns B joined with s
\* and resolve_path("/N", L) returns B, when the input has no direct match.
C14_ShorthandForAnyBaseName ==
    sec.op = "resolve_path" =>
        \A n \in DOMAIN sec.allow_list :
            (/\ ShorthandApplies(sec.path, sec.allow_list[n])
             /\ ~UnderSomeBase(sec.path, sec.allow_list))
            => sec.result = Ok(ShorthandRewrite(sec.path, sec.allow_list[n]))

\* std::fs::canonicalize as far as links go: the path with the symbolic link
\* on its way replaced by the link's target
RealPath(p) ==
    LET a == Absolutize(p)
        on == {l \in FsLinks : PathStartsWith(a, l.link)}
    IN  IF on = {} THEN a
        ELSE LET l == CHOOSE x \in on : TRUE
             IN  AbsPath(Components(l.target)
                         \o SubSeq(Components(a), Len(Components(l.link)) + 1,
                                   Len(Components(a))))

\* p lies textually under a base of L and reaches, through a symbolic link, a
\* file outside every base
EscapesThroughLink(p, L) == UnderSomeBase(p, L) /\ ~UnderSomeBase(RealPath(p), L)

\* C15: symbolic links are resolved before the prefix comparison: a path
\* that lies textually under an allowlist base but reaches, through a symlink,
\* a file outside every base is rejected by is_allowed and is excluded from
\* the result of expand_wildcard_path.
C15_SymlinkEscapeRejected ==
    /\ (sec.op = "is_allowed" /\ EscapesThroughLink(sec.path, sec.allow_list))
          => ~sec.result
    /\ (sec.op = "expand_wildcard_path" /\ sec.result.ok)
          => \A f \in sec.result.files : ~EscapesThroughLink(f, sec.allow_list)

(***************************************************************************)
(* Claims about the tool executor                                          *)
(***************************************************************************)
\* the request in flight or last served got past the lookup of the tool
Dispatched == exec.pc = "io" \/ (exec.pc = "done" /\ exec.handler # "none")

ReadOnlyContext(ctx) ==
    validate(ctx) = None /\ ctx.flags.some /\ ctx.flags.val.read_only

\* C4: execute for fs.write with context.flags.read_only = true ends, for
\* every scheme of the manifest entry (wasm:// included), in the result
\* success=false with error "Write operation blocked by read_only flag",
\* and the sandbox driver is not invoked.
C4_ReadOnlyBlocksWrite ==
    (Dispatched /\ exec.tool_id = FsWrite /\ ReadOnlyContext(exec.context))
        => /\ exec.pc = "done"
           /\ exec.result.ret = "Ok"
           /\ ~exec.result.success
           /\ exec.result.error = Some(ReadOnlyBlocked)
           /\ exec.sandbox = None

\* C5: the file the built-in fs.read opens and the directory the built-in
\* fs.list enumerates lie under a base of the allowlist; a path accepted
\* through the shorthand rule is not opened in its original form.  Stated
\* here for the paths with no ".." component, where C6's acceptance of
\* "/<base name>/.." plays no part.
C5_BuiltinOpensUnderBase ==
    (exec.pc = "done" /\ exec.handler = "builtin" /\ exec.tool_id \in {FsRead, FsList})
        => \A p \in exec.opened :
              (\A n \in DOMAIN Components(p) : Components(p)[n] # DotDot)
                  => \E n \in DOMAIN fs_allowlist : UnderBase(p, fs_allowlist[n])

\* C7: a tool request reaches a handler, the sandbox or a subprocess only
\* after is_tool_allowed(user, tool) returned true; a request that RBAC
\* rejects is answered PolicyDenied and nothing is executed.
C7_RbacGatesDispatch ==
    Dispatched => is_tool_allowed(policies, exec.user, exec.tool_id)

\* C10: for a valid context and a registered tool, the ToolResult that
\* execute returns is either success=true with output present and error
\* absent, or success=false with error present and output absent; for every
\* runtime and built-in handler.
C10_ResultHasOneShape ==
    (exec.pc = "done" /\ exec.result.ret = "Ok")
        => \/ exec.result.success /\ exec.result.output /\ ~exec.result.error.some
           \/ ~exec.result.success /\ exec.result.error.some /\ ~exec.result.output

\* C11: for a valid context and a registered tool, every path through
\* execute ends with a ToolResult carrying context_used; a failure inside the
\* dispatch step (path rejected by the allowlist, missing required input
\* field, sandbox or subprocess spawn failure) is success=false with the
\* message in error, never an error return that bypasses the ToolResult.
C11_ExecuteEndsInToolResult ==
    (exec.pc = "done" /\ Dispatched /\ validate(exec.context) = None)
        => /\ exec.result.ret = "Ok"
           /\ exec.result.context_used = exec.context
           /\ (~exec.result.success => exec.result.error.some)

NoDotDot(p) == \A n \in DOMAIN Components(p) : Components(p)[n] # DotDot

\* C16: whenever the dispatcher hands an fs.* tool with a wasm:// entry to the
\* sandbox driver and the input has a path, the path given to the sandbox is
\* the canonical absolute form that passed the allowlist check, for every fs.*
\* tool and every path, a path with wildcards given to a tool other than
\* fs.read and fs.list included.  Stated here for the request paths with no
\* ".." component, where C6's acceptance of "/<base name>/.." plays no part.
C16_SandboxGetsResolvedPath ==
    (/\ exec.pc = "done" /\ exec.sandbox.some
     /\ StartsWith(exec.tool_id, <<"fs", ".">>)
     /\ exec.input.path.some /\ NoDotDot(exec.input.path.val))
    => LET q == exec.sandbox.val.path
       IN  /\ q.some
           /\ IsAbsolute(q.val)
           /\ q.val = Absolutize(q.val)
           /\ UnderSomeBase(q.val, fs_allowlist)

(***************************************************************************)
(* Claims about the policies                                               *)
(***************************************************************************)
\* the tool list of the role of the user of the call, when both are defined
PolRoleKnown ==
    /\ rbac.user \in DOMAIN policies.users
    /\ policies.users[rbac.user] \in DOMAIN policies.roles

PolPatterns == policies.roles[policies.users[rbac.user]]

\* the pattern is "<prefix>.*" and the tool id begins with "<prefix>."
PrefixPatternMatches(pat, tool) ==
    /\ EndsWith(pat, <<".", "*">>)
    /\ StartsWith(tool, SubSeq(pat, 1, Len(pat) - 2) \o <<".">>)

\* C17: a role pattern "<prefix>.*" allows exactly the tool ids that begin
\* with "<prefix>.": for a user whose role has only that pattern,
\* is_tool_allowed(user, t) is true iff t starts with "<prefix>.", so
\* "fsx.read" is denied under the pattern "fs.*".
C17_PrefixPatternNeedsDot ==
    (/\ rbac.op = "is_tool_allowed" /\ PolRoleKnown
     /\ Len(PolPatterns) = 1 /\ EndsWith(PolPatterns[1], <<".", "*">>))
    => (rbac.result <=> PrefixPatternMatches(PolPatterns[1], rbac.tool))

\* C18: is_tool_allowed denies by default: it returns false for every tool
\* when the user is not in the users map, when the user's role is not in the
\* roles map, and when none of the role's patterns matches the tool (no "*",
\* no exact id, no matching prefix pattern).
C18_DeniesByDefault ==
    (/\ rbac.op = "is_tool_allowed"
     /\ \/ ~PolRoleKnown
        \/ \A n \in DOMAIN PolPatterns :
              /\ PolPatterns[n] # <<"*">>
              /\ PolPatterns[n] # rbac.tool
              /\ ~PrefixPatternMatches(PolPatterns[n], rbac.tool))
    => ~rbac.result

(***************************************************************************)
(* Claims about the context engine                                         *)
(***************************************************************************)
LastAdjust == engine_last.op = "adjust_metric"

\* b - b*p/100 and b + b*p/100
CapLow(b) == RSub(b, RMul(b, Rat(engine.change_cap_pct, 100)))
CapHigh(b) == RAdd(b, RMul(b, Rat(engine.change_cap_pct, 100)))

\* C8: for a key with stored baseline b, cap p and observed value v, a
\* permitted adjust_metric returns a value inside [b - b*p/100, b + b*p/100],
\* equal to v when v is inside that interval and to the nearer bound
\* otherwise, and stores it as current; for every b, zero and negative
\* baselines included.
C8_AdjustWithinCap ==
    (/\ LastAdjust
     /\ can_autotune(engine_last.ctx)
     /\ engine_last.key \in DOMAIN engine_last.before)
    => LET b == engine_last.before[engine_last.key].baseline
           v == engine_last.observed
           r == engine_last.ret.val
       IN  /\ RLeq(CapLow(b), r) /\ RLeq(r, CapHigh(b))
           /\ (RLeq(CapLow(b), v) /\ RLeq(v, CapHigh(b))) => r = v
           /\ RLess(CapHigh(b), v) => r = CapHigh(b)
           /\ RLess(v, CapLow(b)) => r = CapLow(b)
           /\ metrics[engine_last.key].current_value = r

\* autotune is not permitted: engine disabled, risk_level not 0, confidence
\* absent or below the threshold, or flags.allow_autotune = false
C9_NotPermitted(ctx) ==
    \/ ~engine.enabled
    \/ ctx.risk_level # 0
    \/ ~ctx.context_confidence.some
    \/ ctx.context_confidence.some /\ ctx.context_confidence.val < 60
    \/ ctx.context_confidence.some /\ ctx.context_confidence.val < engine.min_confidence
    \/ ctx.flags.some /\ ~ctx.flags.val.allow_autotune

\* C9: when autotune is not permitted, adjust_metric(k, v, ctx) returns v and
\* leaves the whole metric table unchanged: no entry for an unknown k, and
\* current, baseline, last_update and the counter of a known k untouched.
C9_NotPermittedNoEffect ==
    (LastAdjust /\ C9_NotPermitted(engine_last.ctx))
    => /\ engine_last.ret = Some(engine_last.observed)
       /\ metrics = engine_last.before

\* C9 witness: a refused adjust_metric on a key that has state, with an
\* observed value other than its current one, in an enabled engine.
C9_Witness ==
    /\ LastAdjust
    /\ engine.enabled
    /\ C9_NotPermitted(engine_last.ctx)
    /\ engine_last.key \in DOMAIN metrics
    /\ metrics[engine_last.key].current_value # engine_last.observed

LastRollback == engine_last.op = "rollback"

\* the call before the last one
PreviousCall == engine_log[Len(engine_log) - 1]

\* C19: rollback(k) on a known key sets current := baseline, resets the
\* consecutive-success counter to 0, leaves baseline unchanged and returns
\* Some(baseline), so that snapshot()[k] = (baseline, baseline) afterwards;
\* rollback on an unknown key returns None and creates no state; a second
\* rollback immediately after the first changes nothing.
C19_RollbackRestoresBaseline ==
    LastRollback =>
        LET k == engine_last.key
            before == engine_last.before
        IN  IF k \in DOMAIN before
            THEN /\ engine_last.ret = Some(before[k].baseline)
                 /\ metrics = [before EXCEPT
                                  ![k].current_value = before[k].baseline,
                                  ![k].consecutive_successes = 0]
                 /\ snapshot[k] = <<before[k].baseline, before[k].baseline>>
                 /\ (/\ Len(engine_log) >= 2
                     /\ PreviousCall.op = "rollback" /\ PreviousCall.key = k)
                    => metrics = before
            ELSE /\ engine_last.ret = None
                 /\ metrics = before

\* C19 witness: a rollback of a key whose current value had moved away from
\* the baseline and whose success counter was not 0.
C19_Witness ==
    /\ LastRollback
    /\ engine_last.key \in DOMAIN engine_last.before
    /\ LET m == engine_last.before[engine_last.key]
       IN  m.current_value # m.baseline /\ m.consecutive_successes > 0

Front(log) == SubSeq(log, 1, Len(log) - 1)

\* the key has state after the calls of the log
KnownAfter(log, k) == \E n \in DOMAIN log : log[n].key = k /\ log[n].created

\* the number of record_success calls on k since the latest of: the creation
\* of k, its last promotion (the 2nd such call), its last rollback
RECURSIVE SuccessesSince(_, _)
SuccessesSince(log, k) ==
    IF log = <<>> THEN 0
    ELSE LET e == log[Len(log)]
             earlier == SuccessesSince(Front(log), k)
         IN  IF e.key # k THEN earlier
             ELSE IF e.op = "rollback" THEN 0
             ELSE IF e.op = "adjust_metric" THEN (IF e.created THEN 0 ELSE earlier)
             ELSE IF ~KnownAfter(Front(log), k) THEN 0
             ELSE IF earlier + 1 = 2 THEN 0
             ELSE earlier + 1

LastSuccess == engine_last.op = "record_success"

\* C20: for every known key, over any sequence of operations: the
\* record_success that is the 2nd since the latest of (creation of the key,
\* last promotion, last rollback) sets baseline := current and resets the
\* counter to 0; every other record_success leaves baseline and current
\* unchanged; record_success on an unknown key creates no state.
C20_PromotionOnSecondSuccess ==
    LastSuccess =>
        LET k == engine_last.key
            before == engine_last.before
        IN  IF k \notin DOMAIN before THEN metrics = before
            ELSE IF SuccessesSince(Front(engine_log), k) + 1 = 2
            THEN metrics = [before EXCEPT
                              ![k].baseline = before[k].current_value,
                              ![k].consecutive_successes = 0]
            ELSE /\ DOMAIN metrics = DOMAIN before
                 /\ \A j \in DOMAIN before :
                       /\ metrics[j].baseline = before[j].baseline
                       /\ metrics[j].current_value = before[j].current_value
                       /\ j # k => metrics[j] = before[j]

\* C20 witness: the 2nd record_success since the creation of a key whose
\* current value differs from its baseline, so that the baseline moves.
C20_Witness ==
    /\ LastSuccess
    /\ engine_last.key \in DOMAIN engine_last.before
    /\ SuccessesSince(Front(engine_log), engine_last.key) + 1 = 2
    /\ LET m == engine_last.before[engine_last.key]
       IN  m.current_value # m.baseline
    /\ metrics[engine_last.key].baseline
          # engine_last.before[engine_last.key].baseline

\* ---------------------------------------------------------------------------
\* First adjustment of a key and the autotune gate
\* ---------------------------------------------------------------------------

\* C21: the first permitted adjust_metric(k, v, ctx) on a key with no state
\* creates it with current = baseline = v and returns v, for every v, zero
\* and negative values included.
C21_FirstAdjustCreatesAtObserved ==
    (/\ LastAdjust
     /\ can_autotune(engine_last.ctx)
     /\ engine_last.key \notin DOMAIN engine_last.before)
    => /\ engine_last.ret = Some(engine_last.observed)
       /\ metrics[engine_last.key].current_value = engine_last.observed
       /\ metrics[engine_last.key].baseline = engine_last.observed

\* the frame's gate as the documentation words it: risk level 0, a confidence
\* that is present and at least 0.6, and flags absent or allowing autotune
FramePermits(ctx) ==
    /\ ctx.risk_level = 0
    /\ ctx.context_confidence.some
    /\ ctx.context_confidence.val >= 60
    /\ (~ctx.flags.some \/ ctx.flags.val.allow_autotune)

\* C22: the frame's can_autotune is true exactly when risk_level is 0, the
\* confidence is present and at least 0.6 and the flags are absent or allow
\* autotune; the engine's can_autotune is never true where the frame's is
\* false, and is false whenever the engine is disabled; an adjust_metric
\* call changes the table only for a frame the gate lets through.
C22_EngineGateWithinFrameGate ==
    LastAdjust
    => LET ctx == engine_last.ctx
       IN  /\ frame_can_autotune(ctx) <=> FramePermits(ctx)
           /\ can_autotune(ctx) => frame_can_autotune(ctx)
           /\ ~engine.enabled => ~can_autotune(ctx)
           /\ metrics # engine_last.before => (engine.enabled /\ FramePermits(ctx))

\* C22 witness: a frame whose own gate is open (risk 0, confidence 0.7, flags
\* allowing autotune) meets an enabled engine whose threshold 0.8 is above
\* it, and the call comes back unadjusted and creates nothing.
C22_Witness ==
    /\ LastAdjust
    /\ engine.enabled
    /\ engine.min_confidence = 80
    /\ frame_can_autotune(engine_last.ctx)
    /\ engine_last.ctx.flags.some
    /\ ~can_autotune(engine_last.ctx)
    /\ engine_last.ret = Some(engine_last.observed)
    /\ metrics = engine_last.before

\* ---------------------------------------------------------------------------
\* Frame validation
\* ---------------------------------------------------------------------------

\* a present score is a number within [0, 1]
WithinUnit(score) == ~IsNaN(score) /\ 0 <= score.val /\ score.val <= 100

\* the frame meets every documented requirement
FrameWellFormed(frame) ==
    /\ frame.reason_trace_id # ""
    /\ frame.tenant_id # ""
    /\ frame.stage \in {"dev", "staging", "prod"}
    /\ frame.risk_level \in {0, 1, 2}
    /\ frame.novelty_score.some => WithinUnit(frame.novelty_score)
    /\ frame.context_confidence.some => WithinUnit(frame.context_confidence)

\* C23: validation accepts a frame if and only if reason_trace_id and
\* tenant_id are non-empty, stage is one of dev/staging/prod, risk_level is
\* 0, 1 or 2 and each score that is present is within [0, 1]; a frame that
\* breaks any one of these is rejected.
C23_ValidateIffWellFormed ==
    frame_check.op # "none"
    => (frame_check.result = None <=> FrameWellFormed(frame_check.frame))

\* C23 witness: a frame whose only fault is a risk_level of 5 has been
\* through validation and was rejected.
C23_Witness ==
    /\ frame_check.op = "contract_validate"
    /\ frame_check.frame.risk_level = 5
    /\ FrameWellFormed([frame_check.frame EXCEPT !.risk_level = 0])
    /\ frame_check.result = Some("risk_level must be 0, 1, or 2")

\* ---------------------------------------------------------------------------
\* The read-only gate and the scheme of the entry
\* ---------------------------------------------------------------------------

\* the request was served past the scheme branches: by the gate, by a
\* built-in handler or by the table's fallback
ServedByTable == exec.pc = "done" /\ exec.handler \in {"gate", "builtin", "fallback"}

\* C24: execute for fs.delete with context.flags.read_only = true ends in a
\* non-successful ToolResult with error "Write operation blocked by
\* read_only flag" and dispatches nothing, exactly as for fs.write.  Stated
\* for the entries with neither scheme, where the gate does stop fs.write.
C24_ReadOnlyBlocksDelete ==
    (ServedByTable /\ exec.tool_id = FsDelete /\ ReadOnlyContext(exec.context))
        => /\ exec.result.ret = "Ok"
           /\ ~exec.result.success
           /\ exec.result.error = Some(ReadOnlyBlocked)
           /\ exec.handler = "gate"

\* the kinds of I/O the built-in handlers wait for
BuiltinIo == {"read_file", "read_dir", "http", "fetch", "env", "process"}

C28_QueueDepthBounded == queue_depth <= BATCH_SIZE

\* every event handed to the bus so far carried a context that validate accepts
OnlyValidContexts ==
    \A i \in DOMAIN calls :
        \A n \in DOMAIN calls[i].arg : validate(calls[i].arg[n].context) = None

\* C26: when a handler subscribed to the event's type returns an error,
\* publish still returns the EventResponse, the event stays stored with its
\* version and with its correlation id in the dedup index, and every other
\* handler subscribed to that type is still invoked.
C26_HandlerErrorDoesNotFailPublish ==
    \A i \in DOMAIN delivered :
        delivered[i].result = "Err"
        => LET d == delivered[i]
               call == calls[d.call]
           IN  /\ \E n \in DOMAIN events :
                     /\ events[n].id = d.event_id
                     /\ events[n].version >= 1
                     /\ check_duplicate(events[n].correlation_id) = Some(d.event_id)
                     /\ (Returned(d.call) /\ call.op = "publish" /\ OnlyValidContexts)
                        => call.result = Ok(ResponseOf(events[n]))
               /\ (Returned(d.call) /\ call.result.kind # "Ok")
                  => call.result = Err("InvalidContext")
               /\ \A j \in 1..d.subscribed :
                     \E m \in DOMAIN delivered :
                        /\ delivered[m].event_id = d.event_id
                        /\ delivered[m].position = j

\* C26 witness: the first of two handlers subscribed to the event's type
\* returned an error, the second was called after it, and the publish has
\* returned the response of the stored event.
C26_Witness ==
    \E i, j \in DOMAIN delivered :
        /\ delivered[i].result = "Err" /\ delivered[i].position = 1
        /\ delivered[j].event_id = delivered[i].event_id
        /\ delivered[j].position = 2 /\ delivered[j].result = "Ok"
        /\ calls[delivered[i].call].op = "publish"
        /\ calls[delivered[i].call].result.kind = "Ok"
        /\ calls[delivered[i].call].result.value.event_id = delivered[i].event_id

\* the correlation id was handed to the bus by a call made before call i
PublishedBefore(k, i) ==
    \E m \in 1..(i - 1) : \E n \in DOMAIN calls[m].arg : calls[m].arg[n].correlation_id = k

\* no earlier element of the batch carries the correlation id of element i
FirstInBatch(es, i) ==
    \A m \in 1..(i - 1) : es[m].correlation_id # es[i].correlation_id

\* C27: publish_batch handles its events in input order, each as publish
\* does: the i-th response is the response of the event stored for the i-th
\* input's correlation id; events of the batch that go to the same stream get
\* increasing versions in input order; an element whose correlation id is
\* that of an earlier element of the batch, or of an event stored before,
\* gets that event's response and nothing more is stored for it.
C27_BatchInInputOrder ==
    \A c \in DOMAIN calls :
        (calls[c].op = "publish_batch" /\ calls[c].result.kind = "Ok")
        => LET es == calls[c].arg
               resps == calls[c].result.value
           IN  /\ Len(resps) = Len(es)
               /\ \A i \in DOMAIN es :
                     LET k == es[i].correlation_id
                     IN  /\ Cardinality(StoredWith(k)) = 1
                         /\ resps[i] = ResponseOf(events[CHOOSE n \in StoredWith(k) : TRUE])
               /\ \A i, j \in DOMAIN es :
                     (/\ i < j
                      /\ es[i].correlation_id = es[j].correlation_id)
                     => resps[j] = resps[i]
               /\ \A i, j \in DOMAIN es :
                     (/\ i < j
                      /\ es[i].correlation_id # es[j].correlation_id
                      /\ es[i].stream_id = es[j].stream_id
                      /\ FirstInBatch(es, i) /\ FirstInBatch(es, j)
                      /\ ~PublishedBefore(es[i].correlation_id, c)
                      /\ ~PublishedBefore(es[j].correlation_id, c))
                     => resps[i].version < resps[j].version

\* C27 witness: a publish_batch of two events with different correlation
\* ids on one stream has returned with versions 1 and 2, and a later
\* publish_batch whose two elements share a correlation id has returned the
\* stored event's response twice.
C27_Witness ==
    /\ \E c \in DOMAIN calls :
          /\ calls[c].op = "publish_batch" /\ calls[c].result.kind = "Ok"
          /\ Len(calls[c].arg) = 2
          /\ calls[c].arg[1].stream_id = calls[c].arg[2].stream_id
          /\ calls[c].arg[1].correlation_id # calls[c].arg[2].correlation_id
          /\ calls[c].result.value[1].version = 1
          /\ calls[c].result.value[2].version = 2
    /\ \E c \in DOMAIN calls :
          /\ calls[c].op = "publish_batch" /\ calls[c].result.kind = "Ok"
          /\ Len(calls[c].arg) = 2
          /\ calls[c].arg[1].correlation_id = calls[c].arg[2].correlation_id
          /\ calls[c].arg[1].stream_id # calls[c].arg[2].stream_id
          /\ calls[c].result.value[1] = calls[c].result.value[2]

\* ---------------------------------------------------------------------------
\* The lock of the tool table
\* ---------------------------------------------------------------------------

\* C29: the dispatcher holds the lock of the tool table for the lookup only
\* and never across I/O: while the handler, sandbox child, subprocess or
\* HTTP request of an execute in flight is running, a register_tool can take
\* the exclusive lock and complete.
C29_RegisterCompletesDuringIo ==
    exec.pc = "io" => ENABLED (\E m \in ToolManifests : register_tool(m))

\* ---------------------------------------------------------------------------
\* The engine under concurrent calls
\* ---------------------------------------------------------------------------

\* the map a snapshot of the table gives
PairsOf(table) == [k \in DOMAIN table |-> <<table[k].current_value, table[k].baseline>>]

\* C30: under any interleaving of concurrent adjust_metric, record_success,
\* rollback and snapshot calls the operations take effect one at a time, in
\* the order in which they hold the lock, and each return value is the one
\* the operation gives on the table it found; a snapshot returns, for every
\* key, a (current, baseline) pair that stood in the table together: while
\* a thread holds the write guard nobody else holds a guard and the table is
\* as the holder found it, whatever a snapshot has copied so far is still
\* what the table holds, and the map a snapshot returns is the table of the
\* moment it returns.
C30_EngineCallsTakeEffectInOneOrder ==
    /\ metrics_lock.writer # 0 => metrics_lock.readers = {}
    /\ Len(engine_log) = engine_ops
    /\ \A t \in Threads :
          LET call == engine_task[t]
          IN  /\ call.pc = "locked"
                 => (metrics_lock.writer = t /\ call.seen = metrics)
              /\ call.pc = "reading"
                 => /\ t \in metrics_lock.readers
                    /\ \A item \in DOMAIN call.got :
                          /\ item[1] \in DOMAIN metrics
                          /\ call.got[item] = metrics[item[1]][item[2]]
              /\ (call.pc = "returned" /\ call.op = "snapshot")
                 => call.ret = PairsOf(call.before)
              /\ (call.pc = "returned" /\ call.op = "rollback")
                 => call.ret = IF call.key \in DOMAIN call.before
                               THEN Some(call.before[call.key].baseline)
                               ELSE None

\* C30 witness: a snapshot has copied part of a table and is still reading
\* while another thread waits for the write lock to roll back an entry whose
\* current value is away from its baseline.
C30_Witness ==
    \E t, u \in Threads :
        /\ engine_task[t].pc = "reading"
        /\ DOMAIN engine_task[t].got # {}
        /\ engine_task[t].todo # {}
        /\ engine_task[u].pc = "lock"
        /\ engine_task[u].op = "rollback"
        /\ engine_task[u].key \in DOMAIN metrics
        /\ metrics[engine_task[u].key].current_value #
              metrics[engine_task[u].key].baseline

\* ---------------------------------------------------------------------------
\* Wildcards, native tools and the queue watermark
\* ---------------------------------------------------------------------------
\* a request for fs.read or fs.list on a wasm:// entry whose path has a
\* wildcard
WildcardRequest ==
    /\ \/ exec.pc = "io" /\ StartsWith(tools[exec.tool_id].entry, <<"wasm://">>)
       \/ exec.pc = "done" /\ exec.handler = "wasm"
    /\ exec.tool_id \in {FsRead, FsList}
    /\ exec.input.path.some
    /\ IsWild(exec.input.path.val)

\* C31: expand_wildcard_path on a path with '*' or '?' either fails or
\* returns a non-empty list in which every path passes is_allowed against the
\* same allowlist; a wildcard fs.read or fs.list is answered by the host with
\* exactly those paths and never reaches the sandbox.
C31_WildcardOnlyAllowedPaths ==
    WildcardRequest
        => LET expanded == expand_wildcard_path(exec.input.path.val, fs_allowlist)
           IN  /\ expanded.ok
                  => /\ expanded.files # {}
                     /\ \A f \in expanded.files : is_allowed(f, fs_allowlist)
               /\ exec.pc = "io"
                  => /\ exec.io.kind = "read_matched"
                     /\ exec.io.files # {}
                     /\ \A f \in exec.io.files : is_allowed(f, fs_allowlist)
               /\ exec.pc = "done"
                  => /\ exec.sandbox = None /\ ~exec.spawned
                     /\ exec.response.success = expanded.ok
                     /\ exec.response.success => exec.opened # {}
                     /\ \A f \in exec.opened : is_allowed(f, fs_allowlist)

\* a wildcard fs.read has been answered with the allowed part of what the
\* pattern matches, which is less than all of it
C31_Witness ==
    /\ WildcardRequest
    /\ exec.pc = "done" /\ exec.tool_id = FsRead /\ exec.response.success
    /\ exec.opened # {}
    /\ \E m \in glob(exec.input.path.val) : m \notin exec.opened

\* C32: execute on a registered tool whose manifest entry is native://<token>,
\* called with a valid context, returns Ok with a ToolResult whose success is
\* true.
C32_NativeEntrySucceeds ==
    (exec.pc = "done" /\ exec.handler = "native")
        => (exec.result.ret = "Ok" /\ exec.result.success)

\* C33: on a bus built with with_queue(c) the backpressure check measures
\* use against c: used_pct = 1 - remaining/c, so with nothing queued
\* used_pct = 0 and no backpressure is signalled, and backpressure is
\* signalled exactly when more than 75% of c is in use; the event is
\* published in either case.
C33_WatermarkAgainstConfiguredCapacity ==
    (queue_tx.some /\ watermark.some)
        => LET c == queue_tx.val.max_capacity
               remaining == queue_tx.val.capacity
               used == RSub(RInt(1), Rat(remaining, c))
           IN  /\ watermark.val.used_pct = Some(used)
               /\ remaining = c
                  => (watermark.val.used_pct = Some(RInt(0)) /\ watermark.val.ok)
               /\ ~watermark.val.ok <=> RLess(Rat(3, 4), used)
               /\ Len(calls) > 0

\* ---------------------------------------------------------------------------
\* Rejected events, the batch boundary and the engine's band
\* ---------------------------------------------------------------------------
\* the correlation id of call i was given to no earlier call
FreshCorrelation(i) ==
    \A j \in 1..(i - 1) :
        \A n \in DOMAIN calls[j].arg :
            calls[j].arg[n].correlation_id # calls[i].arg[1].correlation_id

\* every event given to the bus with correlation id k had a context that
\* validation rejects
OnlyRejectedCarry(k) ==
    \A j \in DOMAIN calls :
        \A n \in DOMAIN calls[j].arg :
            calls[j].arg[n].correlation_id = k => validate(calls[j].arg[n].context) # None

\* C34: a publish rejected with InvalidContext stores no event and has no
\* effect on later calls: every later publish with a valid context and a
\* fresh correlation id succeeds and stores its event, the publish that fills
\* the pending batch included.
C34_RejectedPublishHasNoEffect ==
    \A i \in DOMAIN calls :
        (calls[i].op = "publish" /\ Returned(i))
            => LET e == calls[i].arg[1]
               IN  /\ validate(e.context) # None
                      => /\ calls[i].result.kind = "Err"
                         /\ OnlyRejectedCarry(e.correlation_id)
                            => StoredWith(e.correlation_id) = {}
                   /\ (validate(e.context) = None /\ FreshCorrelation(i))
                      => /\ calls[i].result.kind = "Ok"
                         /\ \E n \in StoredWith(e.correlation_id) :
                               /\ events[n].id = calls[i].result.value.event_id
                               /\ events[n].stream_id = e.stream_id

\* C35: under any interleaving of concurrent publish calls around the batch
\* boundary, no call aborts (a call that decided to flush and finds the batch
\* drained by another call still returns), and the EventResponse a call
\* returns is the one of the event the call was given (the stored event with
\* the call's correlation id), never that of another caller's event.
C35_PublishReturnsOwnResponse ==
    \A i \in DOMAIN calls :
        (calls[i].op = "publish" /\ Returned(i))
            => /\ calls[i].result.kind # "Panic"
               /\ calls[i].result.kind = "Ok"
                  => \E n \in DOMAIN events :
                        /\ events[n].id = calls[i].result.value.event_id
                        /\ events[n].stream_id = calls[i].result.value.stream_id
                        /\ events[n].correlation_id = calls[i].arg[1].correlation_id

BandForNonNegativeBaseline ==
    \A k \in DOMAIN metrics :
        /\ ~RLess(metrics[k].baseline, RInt(0))
           => /\ RLeq(CapLow(metrics[k].baseline), metrics[k].current_value)
              /\ RLeq(metrics[k].current_value, CapHigh(metrics[k].baseline))
        /\ metrics[k].consecutive_successes \in {0, 1}

\* ---------------------------------------------------------------------------
\* Policy updates, subscribers, shorthand paths and the virtual connector
\* ---------------------------------------------------------------------------
\* no update is between its save and its store, one at least has returned,
\* and every one that returned had its save succeed
UpdatesCompleted ==
    /\ \A r \in Updaters : update_task[r].pc \in {"idle", "done"}
    /\ \E r \in Updaters : update_task[r].pc = "done"
    /\ \A r \in Updaters :
          update_task[r].pc = "done" => update_task[r].result.kind = "Ok"

\* the save of updater r fails in this step
SaveFails(r) ==
    /\ update_task[r].pc = "idle"
    /\ update_task'[r].pc = "done"

\* C37: after any interleaving of concurrent policy updates has completed
\* with every save succeeding, the in-memory policies equal the policies last
\* written to policies.json; and when a save fails, the in-memory policies
\* are unchanged and the caller receives an error.
C37_MemoryEqualsFile ==
    /\ [](UpdatesCompleted => policy_file = Some(policies))
    /\ [][\A r \in Updaters :
            SaveFails(r) => (policies' = policies /\ update_task'[r].result.kind = "Err")]_vars

\* the invocations made with the stored event of this id, in the order made
InvocationsOf(event_id) == SelectSeq(delivered, LAMBDA d : d.event_id = event_id)

\* caller c runs the fan-out of publish_internal in this step
FanOutStep(c) ==
    /\ task[c].pc = "index"
    /\ task'[c].pc # "index" \/ task'[c].todo # task[c].todo

\* the step appends one invocation per handler of the list, in the order of
\* the list, each with the event stored under event_id
AppendsInvocations(handler_list, event_type, event_id) ==
    /\ Len(delivered') = Len(delivered) + Len(handler_list)
    /\ SubSeq(delivered', 1, Len(delivered)) = delivered
    /\ \A j \in DOMAIN handler_list :
          LET d == delivered'[Len(delivered) + j]
          IN  /\ d.handler = handler_list[j].name
              /\ d.event_id = event_id
              /\ d.event_type = event_type

\* a subscription is never taken back: the handlers of every type stay, in
\* their order
SubscriptionsKept ==
    \A T \in DOMAIN handlers :
        /\ T \in DOMAIN handlers'
        /\ Len(handlers[T]) <= Len(handlers'[T])
        /\ SubSeq(handlers'[T], 1, Len(handlers[T])) = handlers[T]

\* C38: for every newly stored event of type T, each handler subscribed to T
\* before the publish is invoked exactly once with that event, in
\* subscription order; no handler is invoked for a deduplicated publish, for
\* a publish rejected by validation, for an event of another type, or a
\* second time when a batch flush goes again through events already
\* published.
C38_HandlersOncePerStoredEvent ==
    /\ [][SubscriptionsKept]_vars
    /\ [][\A c \in Callers :
            FanOutStep(c)
            => LET e == Head(task[c].todo)
               IN  /\ \E n \in DOMAIN events :
                         /\ events[n].id = task[c].id
                         /\ events[n].correlation_id = e.correlation_id
                         /\ events[n].stream_id = e.stream_id
                   /\ InvocationsOf(task[c].id) = <<>>
                   /\ AppendsInvocations(HandlersOf(e.event_type), e.event_type,
                                         task[c].id)]_vars
    /\ [][(\A c \in Callers : ~FanOutStep(c)) => delivered' = delivered]_vars
    /\ [](\A i \in DOMAIN delivered :
             /\ \E n \in DOMAIN events : events[n].id = delivered[i].event_id
             /\ delivered[i].position <= Len(InvocationsOf(delivered[i].event_id))
             /\ InvocationsOf(delivered[i].event_id)[delivered[i].position] = delivered[i]
             /\ Len(InvocationsOf(delivered[i].event_id)) = delivered[i].subscribed)

\* C38 witness: two handlers are subscribed to one type; an event of that
\* type was stored and both handlers were called with it, once each and in
\* their order; a second publish of the same
\* event has filled the batch, gone through it again and returned the same
\* response with no further invocation.
C38_Witness ==
    /\ \E T, U \in EventTypes :
          /\ T # U
          /\ Len(HandlersOf(T)) = 2 /\ HandlersOf(U) = <<>>
          /\ Len(delivered) = 2
          /\ delivered[1].event_type = T /\ delivered[2].event_type = T
          /\ delivered[1].handler = HandlersOf(T)[1].name /\ delivered[1].position = 1
          /\ delivered[2].handler = HandlersOf(T)[2].name /\ delivered[2].position = 2
          /\ HandlersOf(T)[1].name # HandlersOf(T)[2].name
    /\ Len(calls) = 2 /\ Len(events) = 1
    /\ calls[1].op = "publish" /\ calls[2].op = "publish"
    /\ calls[1].result.kind = "Ok" /\ calls[2].result = calls[1].result
    /\ pending_batch = <<>>

\* C39: resolve_path applies the shorthand rewrite only when the path has no
\* direct match: a path that already lies under an allowlist base is returned
\* unchanged, whatever the basenames of the other allowlist entries are and
\* whatever the order of the allowlist is.
C39_DirectMatchReturnedUnchanged ==
    (/\ sec.op = "resolve_path"
     /\ \E n \in DOMAIN sec.allow_list : UnderBase(sec.path, sec.allow_list[n]))
        => sec.result = Ok(sec.path)

\* C40: in every reachable state of the VirtualConnector, after any
\* interleaving of connect and disconnect calls, active() equals the number
\* of connect calls minus the number of disconnect calls and never exceeds
\* the number of connect calls made so far; a disconnect while active() = 0
\* does not wrap the 64-bit counter.
C40_ActiveIsConnectsMinusDisconnects ==
    /\ conn_calls.connect >= conn_calls.disconnect
       => active = U64Of(conn_calls.connect - conn_calls.disconnect)
    /\ \E n \in 0..conn_calls.connect : active = U64Of(n)

====
